---- MODULE Spec2Model ----
(***************************************************************************)
(* NewsBot RAG chatbot backend.                                            *)
(*                                                                         *)
(* Specifications over one set of variables:                               *)
(*   Spec            the query processors: processRAGQuery with            *)
(*                   safeGenerateContent (server.js) and                   *)
(*                   RagService.answerQuery (services/ragService.js);      *)
(*   SpecSocket      the Socket.IO transport (server.js io.on('connection'));*)
(*   SpecSession     the session store and POST /api/chat/message          *)
(*                   (routes/session.js, routes/chat.js);                  *)
(*   SpecStream      POST /api/chat/stream (routes/chat.js);               *)
(*   SpecServer      the Socket.IO transport with session creation;        *)
(*   SpecStore       the session routes with several sessions and a clock  *)
(*                   (routes/session.js);                                  *)
(*   SpecTurns       one session under creation, appends and clears        *)
(*                   (routes/session.js, routes/chat.js);                  *)
(*   SpecChat        request validation of the chat routes (routes/chat.js);*)
(*   SpecTransport   the failure replies of the three transports;          *)
(*   SpecCache       CacheService (services/cacheService.js);              *)
(*   SpecSharedCache CacheService called on behalf of several sessions;    *)
(*   SpecIngest      createEmbeddings (scripts/ingestNews.js);             *)
(*   SpecQdrant      initializeCollection and storeInVectorDB              *)
(*                   (config/qdrant.js, scripts/ingestNews.js).            *)
(* Each specification leaves the variables of the others unchanged.        *)
(***************************************************************************)
EXTENDS Integers, Sequences, FiniteSets, TLC

(***************************************************************************)
(* Bounds of the model.                                                    *)
(***************************************************************************)
MaxCalls == 3
MaxDocs == 2
MaxSockets == 2
MaxSessions == 1
MaxStoreSessions == 2
MaxReqs == 2
MaxTurnReqs == 3
MaxTime == 2
MaxLen == 2
MaxArticles == 4
\* this.batchSize of NewsIngestionService (10 in ingestNews.js:29), scaled down.
BatchSize == 2
MaxCallers == 2
MaxRuns == 2

(***************************************************************************)
(* Program constants.                                                      *)
(***************************************************************************)
DefaultRetries == 3
SearchLimit == 3
StatusOverloaded == 503
StatusOtherError == 500
SessionTTL == 2
VectorSize == 768

VARIABLES
  call,       \* the query-processor call in progress or last completed
  nCalls,     \* number of query-processor calls started
  answered,   \* history: first generated answer per (sessionId, query)
  sockState,         \* per socket id: "new", "connected" or "disconnected"
  rooms,             \* per socket id: the session rooms it is a member of
  connectedSessions, \* the Map of server.js:11, in insertion order
  pending,           \* per socket id: the session id of its send-message handler
                     \* in flight, or NoSession
  evicted,           \* history: <<socket, session>>: the binding of this connected
                     \* socket to the session was replaced by another socket's join
  emitted,           \* the event the last step emitted, if it emitted one
  now,               \* the clock, in ticks of half a session TTL
  store,             \* Redis: per session id, the value and expiry of key session:<id>
  nextUuid,          \* number of session ids uuidv4() has handed out
  reqs,              \* the POST /api/chat/message handlers in flight
  nReqs,             \* number of valid POST /api/chat/message requests received
  httpOut,           \* the HTTP response the last step sent, if it sent one
  hist,              \* history: per session id, what its requests did
  cache,             \* Redis: per cache key, the value stored under it
  written,           \* history: per query, folded to lower case and trimmed, the
                     \* result last cached for it and still within its TTL
  cacheOp,           \* the CacheService call the last step made, if it made one
  ing,               \* the createEmbeddings run of NewsIngestionService
  qd,                \* Qdrant: the collection collectionName and its points
  callers            \* the storeInVectorDB calls of the ingestion processes

ragVars == <<call, nCalls, answered>>
sockVars == <<sockState, rooms, connectedSessions, pending, evicted, emitted>>
sessVars == <<now, store, nextUuid, reqs, nReqs, httpOut, hist>>
cacheVars == <<cache, written, cacheOp>>
ingVars == <<ing>>
qdVars == <<qd, callers>>
notRag == <<sockVars, sessVars, cacheVars, ingVars, qdVars>>
notSock == <<ragVars, sessVars, cacheVars, ingVars, qdVars>>
notSess == <<ragVars, sockVars, cacheVars, ingVars, qdVars>>
notCache == <<ragVars, sockVars, sessVars, ingVars, qdVars>>
notIng == <<ragVars, sockVars, sessVars, cacheVars, qdVars>>
notQd == <<ragVars, sockVars, sessVars, cacheVars, ingVars>>
vars == <<call, nCalls, answered,
          sockState, rooms, connectedSessions, pending, evicted, emitted,
          now, store, nextUuid, reqs, nReqs, httpOut, hist,
          cache, written, cacheOp, ing, qd, callers>>

(***************************************************************************)
(* Query processors: server.js processRAGQuery / safeGenerateContent and   *)
(* services/ragService.js RagService.answerQuery.                          *)
(*                                                                         *)
(* processRAGQuery reads and writes only its own locals, so calls do not   *)
(* interact; one call at a time is modelled, followed by the next.         *)
(***************************************************************************)
Processors == {"processRAGQuery", "answerQuery"}
RagSessionIds == {"sA", "sB"}
Queries == {"q1", "q2"}
Texts == {"t1", "t2"}
Docs == 1..MaxDocs

NoInfoAnswer == "I couldn't find any relevant information from the stored news articles."
ApologyAnswer == "Sorry, I couldn't generate a response right now."
WentWrongAnswer == "Something went wrong while processing your query."
Undefined == "undefined"
NoValue == "none"

Min(a, b) == IF a < b THEN a ELSE b

\* Ranked hit lists the vector store can return for limit: 3 (server.js:104-108):
\* at most SearchLimit distinct documents.
HitLists ==
  UNION { { h \in [1..n -> Docs] : \A a, b \in 1..n : a # b => h[a] # h[b] }
          : n \in 0..Min(SearchLimit, MaxDocs) }

\* Mutant of BuildSources: the entries are in reverse hit order.
BuildSources_Reversed(hits) ==
  [k \in 1..Len(hits) |->
     [title |-> hits[Len(hits) + 1 - k], url |-> hits[Len(hits) + 1 - k]]]

\* searchResults.map(r => ({title, url})) (server.js:124-127): one entry per
\* hit, in hit order; a document's title and url are identified by its id.
BuildSources(hits) == [k \in 1..Len(hits) |-> [title |-> hits[k], url |-> hits[k]]]

\* Outcomes of one model.generateContent call.
GenOutcomes ==
  [ok : {TRUE}, text : Texts, status : {0}]
    \cup [ok : {FALSE}, text : {NoValue}, status : {StatusOverloaded, StatusOtherError}]

\* Mutant of SafeGenCatch: the apology test compares i with retries, so the
\* last failed attempt falls out of the loop.
SafeGenCatch_ApologyOffByOne(i, status, retries) ==
  IF status = StatusOverloaded /\ i < retries - 1
    THEN [next |-> "sleep", value |-> NoValue]
    ELSE IF i = retries
      THEN [next |-> "return", value |-> ApologyAnswer]
      ELSE [next |-> "loop", value |-> NoValue]

\* The catch block of safeGenerateContent (server.js:83-92) in iteration i.
SafeGenCatch(i, status, retries) ==
  IF status = StatusOverloaded /\ i < retries - 1
    THEN [next |-> "sleep", value |-> NoValue]
    ELSE IF i = retries - 1
      THEN [next |-> "return", value |-> ApologyAnswer]
      ELSE [next |-> "loop", value |-> NoValue]

\* One iteration of the for loop of safeGenerateContent (server.js:79-93).
SafeGenIteration(i, outcome, retries) ==
  IF outcome.ok
    THEN [next |-> "return", value |-> outcome.text]
    ELSE SafeGenCatch(i, outcome.status, retries)

\* i++ and the loop test i < retries (server.js:79); falling out of the loop
\* reaches the end of the function, which returns undefined (server.js:94).
SafeGenLoop(i, retries) ==
  IF i + 1 < retries
    THEN [next |-> "gen", i |-> i + 1, value |-> NoValue]
    ELSE [next |-> "return", i |-> i + 1, value |-> Undefined]

IdleCall ==
  [proc |-> "none", sid |-> "sA", query |-> "q1", pc |-> "idle", i |-> 0,
   embedCalls |-> 0, searchCalls |-> 0, modelCalls |-> 0, backoffMs |-> 0,
   redisUp |-> TRUE, embedded |-> "none", statuses |-> <<>>,
   searched |-> "none", hits |-> <<>>,
   genRet |-> NoValue, hadPrior |-> FALSE, priorAnswer |-> NoValue,
   outcome |-> "none", answer |-> NoValue, sources |-> <<>>,
   hasRelevantContext |-> "absent", fromCache |-> "absent"]

\* return { answer, sources, hasRelevantContext: true } (server.js:151)
ReturnGenerated(c, value) ==
  [c EXCEPT !.pc = "done", !.genRet = value, !.outcome = "returned",
            !.answer = value, !.sources = BuildSources(c.hits),
            !.hasRelevantContext = "true"]

\* Mutant of AfterSearch: no zero-hit early return.
AfterSearch_NoZeroHitReturn(c, hits) ==
  [c EXCEPT !.pc = "gen", !.hits = hits, !.i = 0]

\* The zero-hit branch and the context build of processRAGQuery
\* (server.js:114-149) once the search has returned hits.
AfterSearch(c, hits) ==
  IF Len(hits) = 0
    THEN [c EXCEPT !.pc = "done", !.hits = hits, !.outcome = "returned",
                   !.answer = NoInfoAnswer, !.sources = <<>>,
                   !.hasRelevantContext = "false"]
    ELSE [c EXCEPT !.pc = "gen", !.hits = hits, !.i = 0]

\* A caller invokes processRAGQuery(query, sessionId) (server.js:97, 227).
PRQ_Start(sid, q) ==
  /\ UNCHANGED notRag
  /\ call.pc \in {"idle", "done"}
  /\ nCalls < MaxCalls
  /\ call' = [IdleCall EXCEPT !.proc = "processRAGQuery", !.sid = sid,
                              !.query = q, !.pc = "embed",
                              !.hadPrior = (answered[<<"processRAGQuery", sid, q>>] # NoValue),
                              !.priorAnswer = answered[<<"processRAGQuery", sid, q>>]]
  /\ nCalls' = nCalls + 1
  /\ UNCHANGED answered

\* await embeddings.embedSingle(query) (server.js:101): a vector, or the
\* error thrown by GoogleEmbeddingsClient.embed, which processRAGQuery does
\* not catch.
PRQ_Embed(ok) ==
  /\ UNCHANGED notRag
  /\ call.proc = "processRAGQuery" /\ call.pc = "embed"
  /\ call' = IF ok
       THEN [call EXCEPT !.pc = "search", !.embedCalls = @ + 1,
                         !.embedded = "returned"]
       ELSE [call EXCEPT !.pc = "done", !.embedCalls = @ + 1,
                         !.embedded = "threw", !.outcome = "threw"]
  /\ UNCHANGED <<nCalls, answered>>

\* await qdrant.client.search(...) (server.js:104-108) returns the hits.
PRQ_SearchReturns(hits) ==
  /\ UNCHANGED notRag
  /\ call.proc = "processRAGQuery" /\ call.pc = "search"
  /\ call' = AfterSearch([call EXCEPT !.searchCalls = @ + 1,
                                      !.searched = "returned"], hits)
  /\ UNCHANGED <<nCalls, answered>>

\* await qdrant.client.search(...) rejects; processRAGQuery does not catch.
PRQ_SearchThrows ==
  /\ UNCHANGED notRag
  /\ call.proc = "processRAGQuery" /\ call.pc = "search"
  /\ call' = [call EXCEPT !.pc = "done", !.searchCalls = @ + 1,
                          !.searched = "threw", !.outcome = "threw"]
  /\ UNCHANGED <<nCalls, answered>>

\* The first generated answer of each (sessionId, query), kept as history.
RecordAnswer(c, value) ==
  IF value \in Texts /\ answered[<<c.proc, c.sid, c.query>>] = NoValue
    THEN [answered EXCEPT ![<<c.proc, c.sid, c.query>>] = value]
    ELSE answered

\* One attempt of safeGenerateContent: await model.generateContent(prompt)
\* and what the loop does with its outcome (server.js:79-93).
SGC_Attempt(outcome) ==
  /\ UNCHANGED notRag
  /\ call.proc = "processRAGQuery" /\ call.pc = "gen"
  /\ LET c == [call EXCEPT !.modelCalls = @ + 1,
                            !.statuses = Append(@, outcome.status)]
         it == SafeGenIteration(call.i, outcome, DefaultRetries)
         lp == SafeGenLoop(call.i, DefaultRetries)
     IN CASE it.next = "return" ->
               /\ call' = ReturnGenerated(c, it.value)
               /\ answered' = RecordAnswer(c, it.value)
          [] it.next = "sleep" ->
               /\ call' = [c EXCEPT !.pc = "sleep"]
               /\ UNCHANGED answered
          [] it.next = "loop" /\ lp.next = "gen" ->
               /\ call' = [c EXCEPT !.i = lp.i]
               /\ UNCHANGED answered
          [] it.next = "loop" /\ lp.next = "return" ->
               /\ call' = ReturnGenerated([c EXCEPT !.i = lp.i], lp.value)
               /\ UNCHANGED answered
  /\ UNCHANGED nCalls

\* 2 ** i
Pow2(i) == IF i = 0 THEN 1 ELSE IF i = 1 THEN 2 ELSE IF i = 2 THEN 4 ELSE 8

\* setTimeout(r, 1000 * 2 ** i) (server.js:86)
BackoffDelay(i) == 1000 * Pow2(i)

\* The backoff timer of server.js:86 fires and the loop continues (line 87).
SGC_Backoff ==
  /\ UNCHANGED notRag
  /\ call.proc = "processRAGQuery" /\ call.pc = "sleep"
  /\ LET lp == SafeGenLoop(call.i, DefaultRetries)
         c == [call EXCEPT !.backoffMs = @ + BackoffDelay(call.i)]
     IN call' = IF lp.next = "gen"
                  THEN [c EXCEPT !.pc = "gen", !.i = lp.i]
                  ELSE ReturnGenerated([c EXCEPT !.i = lp.i], lp.value)
  /\ UNCHANGED <<nCalls, answered>>

\* RagService.answerQuery(sessionId, query) (ragService.js:44-65).  Its first
\* statement calls cacheService.getCachedResponse, which CacheService
\* (cacheService.js:3-127) does not define: the call raises a TypeError inside
\* the try block, and the catch clause returns the fixed string of line 63.
\* No embedding, search, generation or cache call is made, so the call ends
\* the same way whether Redis is reachable (redisUp) or not.
AnswerQuery(sid, q, redisUp) ==
  /\ UNCHANGED notRag
  /\ call.pc \in {"idle", "done"}
  /\ nCalls < MaxCalls
  /\ call' = [IdleCall EXCEPT !.proc = "answerQuery", !.sid = sid, !.query = q,
                              !.pc = "done", !.redisUp = redisUp,
                              !.hadPrior = (answered[<<"answerQuery", sid, q>>] # NoValue),
                              !.priorAnswer = answered[<<"answerQuery", sid, q>>],
                              !.outcome = "returned", !.answer = WentWrongAnswer]
  /\ nCalls' = nCalls + 1
  /\ UNCHANGED answered

RagInit ==
  /\ call = IdleCall
  /\ nCalls = 0
  /\ answered = [k \in Processors \X RagSessionIds \X Queries |-> NoValue]

RagNext ==
  \/ \E sid \in RagSessionIds, q \in Queries : PRQ_Start(sid, q)
  \/ \E ok \in BOOLEAN : PRQ_Embed(ok)
  \/ \E hits \in HitLists : PRQ_SearchReturns(hits)
  \/ PRQ_SearchThrows
  \/ \E o \in GenOutcomes : SGC_Attempt(o)
  \/ SGC_Backoff
  \/ \E sid \in RagSessionIds, q \in Queries, up \in BOOLEAN : AnswerQuery(sid, q, up)

(***************************************************************************)
(* Socket.IO transport: server.js io.on('connection') (lines 194-257).     *)
(*                                                                         *)
(* Every connection has a socket id of its own.  A send-message handler    *)
(* awaits processRAGQuery, which touches no transport state; here it is    *)
(* its outcome (a response returned, or an error thrown) that matters.     *)
(* Handlers share no state but the transport's, so one send-message in     *)
(* flight per socket is modelled.                                          *)
(***************************************************************************)
Sockets == 1..MaxSockets
SessionIds == {"sA", "sB"}
NoSocket == 0
NoSession == "none"

\* The texts of the errors the query path can raise: embed's error
\* (embeddings.js:32), an error of the Qdrant client, and the TypeErrors of
\* the calls of chat.js:24 and chat.js:66.
SearchFailedText == "Qdrant search request failed"
ExceptionMessages ==
  {"Failed to create embeddings", SearchFailedText,
   "processRAGQuery is not a function", "getRelevantContext is not a function"}
NoText == ""
\* socket.emit('error', { message: ... }) (server.js:239-241).
FailedToProcessText == "Failed to process your message. Please try again."

NoEmit ==
  [event |-> "none", from |-> NoSocket, sid |-> "sA", targets |-> {},
   delivered |-> {}, roomAtEmit |-> {}, staleRecipients |-> {},
   sessionStored |-> FALSE, message |-> NoText]

\* The Redis key a session id of the transport stands for: "sA" is the first
\* id /create hands out, any other id is one /create never handed out.
StoreKeyOf(sid) == IF sid = "sA" THEN 1 ELSE MaxSessions + 1

\* The sockets in the delivery group (room) of a session id.
RoomMembers(rms, sid) == { x \in Sockets : sid \in rms[x] }

\* connectedSessions.has(sessionId) / .get(sessionId)
CsHas(cs, sid) == \E k \in 1..Len(cs) : cs[k].sessionId = sid
CsGet(cs, sid) == cs[CHOOSE k \in 1..Len(cs) : cs[k].sessionId = sid].socketId

\* connectedSessions.set(sessionId, socketId): an existing key keeps its place.
CsSet(cs, sid, x) ==
  IF CsHas(cs, sid)
    THEN [k \in 1..Len(cs) |->
            IF cs[k].sessionId = sid THEN [sessionId |-> sid, socketId |-> x] ELSE cs[k]]
    ELSE Append(cs, [sessionId |-> sid, socketId |-> x])

\* The sequence cs without its k-th entry.
RemoveAt(cs, k) == [j \in 1..(Len(cs) - 1) |-> IF j < k THEN cs[j] ELSE cs[j + 1]]

\* The loop of the disconnect handler (server.js:249-255): delete the first
\* entry whose value is the socket's id, then break.
CsDeleteFirstOf(cs, x) ==
  IF \E k \in 1..Len(cs) : cs[k].socketId = x
    THEN RemoveAt(cs, CHOOSE k \in 1..Len(cs) :
                        /\ cs[k].socketId = x
                        /\ \A j \in 1..(k - 1) : cs[j].socketId # x)
    ELSE cs

\* socket.rooms.forEach(room => room !== socket.id && socket.leave(room))
\* (server.js:199-203)
LeaveOtherRooms(rms, x) == [rms EXCEPT ![x] = {}]

\* Mutant of EvictExisting: the socket already bound to the session stays in
\* its room.
EvictExisting_NoLeave(rms, cs, state, sid) == rms

\* server.js:206-214: the socket connectedSessions holds for the session
\* leaves the session's room, when io.sockets.sockets still has it.
EvictExisting(rms, cs, state, sid) ==
  IF CsHas(cs, sid) /\ state[CsGet(cs, sid)] = "connected"
    THEN [rms EXCEPT ![CsGet(cs, sid)] = @ \ {sid}]
    ELSE rms

\* Mutant of EmitTargets: the event goes to the session's room
\* (io.to(sessionId).emit).
EmitTargets_Room(rms, from, sid) == RoomMembers(rms, sid)

\* Mutant of EmitTargets: the event goes to every socket (io.emit).
EmitTargets_Broadcast(rms, from, sid) == Sockets

\* socket.emit(...) (server.js:230, 239): the requesting socket.
EmitTargets(rms, from, sid) == {from}

\* A client connects: io.on('connection') (server.js:194-195).
Connect(x) ==
  /\ UNCHANGED notSock
  /\ sockState[x] = "new"
  /\ \A y \in Sockets : y < x => sockState[y] # "new"
  /\ sockState' = [sockState EXCEPT ![x] = "connected"]
  /\ emitted' = NoEmit
  /\ UNCHANGED <<rooms, connectedSessions, pending, evicted>>

\* socket.on('join-session') (server.js:197-219).
JoinSession(x, sid) ==
  /\ UNCHANGED notSock
  /\ sockState[x] = "connected"
  /\ LET left == LeaveOtherRooms(rooms, x)
         out == EvictExisting(left, connectedSessions, sockState, sid)
     IN rooms' = [out EXCEPT ![x] = @ \cup {sid}]
  /\ connectedSessions' = CsSet(connectedSessions, sid, x)
  /\ evicted' =
       (evicted \cup
          (IF CsHas(connectedSessions, sid) /\ CsGet(connectedSessions, sid) # x
             THEN {<<CsGet(connectedSessions, sid), sid>>} ELSE {}))
         \ {<<x, sid>>}
  /\ emitted' = NoEmit
  /\ UNCHANGED <<sockState, pending>>

\* socket.on('send-message') up to its await (server.js:221-227).
SendMessage(x, sid) ==
  /\ UNCHANGED notSock
  /\ sockState[x] = "connected"
  /\ pending[x] = NoSession
  /\ pending' = [pending EXCEPT ![x] = sid]
  /\ emitted' = NoEmit
  /\ UNCHANGED <<sockState, rooms, connectedSessions, evicted>>

\* The handler emits event for the message socket x sent with session sid;
\* a packet for a socket that has disconnected is dropped.
Emit(x, sid, event) ==
  LET targets == EmitTargets(rooms, x, sid)
      delivered == { y \in targets : sockState[y] = "connected" }
  IN emitted' =
       [event |-> event, from |-> x, sid |-> sid, targets |-> targets,
        delivered |-> delivered,
        roomAtEmit |-> RoomMembers(rooms, sid),
        staleRecipients |-> { y \in delivered : <<y, sid>> \in evicted },
        sessionStored |-> store[StoreKeyOf(sid)].exists,
        message |-> IF event = "error" THEN FailedToProcessText ELSE NoText]

\* processRAGQuery returned: socket.emit('bot-response', ...) (server.js:227-235).
RespondToMessage(x, sid) ==
  /\ UNCHANGED notSock
  /\ pending[x] = sid
  /\ pending' = [pending EXCEPT ![x] = NoSession]
  /\ Emit(x, sid, "bot-response")
  /\ UNCHANGED <<sockState, rooms, connectedSessions, evicted>>

\* Mutant of FailMessage: the event carries error.message.
FailMessage_ForwardsError(x, sid) ==
  /\ UNCHANGED notSock
  /\ pending[x] = sid
  /\ pending' = [pending EXCEPT ![x] = NoSession]
  /\ \E e \in ExceptionMessages :
       emitted' = [NoEmit EXCEPT !.event = "error", !.from = x, !.sid = sid,
                                 !.targets = {x}, !.delivered = {x}, !.message = e]
  /\ UNCHANGED <<sockState, rooms, connectedSessions, evicted>>

\* processRAGQuery threw: socket.emit('error', ...) (server.js:237-242).
FailMessage(x, sid) ==
  /\ UNCHANGED notSock
  /\ pending[x] = sid
  /\ pending' = [pending EXCEPT ![x] = NoSession]
  /\ Emit(x, sid, "error")
  /\ UNCHANGED <<sockState, rooms, connectedSessions, evicted>>

\* The connection closes: Socket.IO takes the socket out of every room and
\* out of io.sockets.sockets, then runs socket.on('disconnect')
\* (server.js:245-256).
Disconnect(x) ==
  /\ UNCHANGED notSock
  /\ sockState[x] = "connected"
  /\ sockState' = [sockState EXCEPT ![x] = "disconnected"]
  /\ rooms' = [rooms EXCEPT ![x] = {}]
  /\ connectedSessions' = CsDeleteFirstOf(connectedSessions, x)
  /\ evicted' = { e \in evicted : e[1] # x }
  /\ emitted' = NoEmit
  /\ UNCHANGED pending

SockInit ==
  /\ sockState = [x \in Sockets |-> "new"]
  /\ rooms = [x \in Sockets |-> {}]
  /\ connectedSessions = <<>>
  /\ pending = [x \in Sockets |-> NoSession]
  /\ evicted = {}
  /\ emitted = NoEmit

SockNext ==
  \/ \E x \in Sockets : Connect(x)
  \/ \E x \in Sockets, sid \in SessionIds : JoinSession(x, sid)
  \/ \E x \in Sockets, sid \in SessionIds : SendMessage(x, sid)
  \/ \E x \in Sockets, sid \in SessionIds : RespondToMessage(x, sid)
  \/ \E x \in Sockets, sid \in SessionIds : FailMessage(x, sid)
  \/ \E x \in Sockets : Disconnect(x)

(***************************************************************************)
(* Session store and chat route: routes/session.js and routes/chat.js      *)
(* (src/unnamed/part_001).                                                 *)
(*                                                                         *)
(* A session lives in Redis under session:<id> with a TTL; the clock ticks *)
(* in units of half a TTL.  Message ids and message timestamps are left    *)
(* out of the stored messages.                                             *)
(***************************************************************************)
Uuids == 1..MaxSessions
\* A session id no /create has handed out, and the keys Redis is asked for.
UnknownId == MaxStoreSessions + 1
Keys == 1..UnknownId
Slots == 1..MaxReqs
MissingId == 0
MissingMessage == ""
\* The texts clients send: the n-th valid request carries the n-th text,
\* so any two requests in a run can be told apart by their text.
UserTexts == <<"m1", "m2", "m3", "m4">>
UserMessages == {UserTexts[i] : i \in 1..Len(UserTexts)}
TextOfRequest(n) == UserTexts[((n - 1) % Len(UserTexts)) + 1]
\* The number of the request that carried the text.
RequestOf(text) == CHOOSE n \in 1..Len(UserTexts) : UserTexts[n] = text

AbsentKey ==
  [exists |-> FALSE, id |-> MissingId, createdAt |-> 0, lastActivity |-> 0,
   messageCount |-> 0, messages |-> <<>>, expiresAt |-> 0]

\* sessionData of router.post('/create') (session.js:10-16) at time t.
NewSession(id, t) ==
  [exists |-> TRUE, id |-> id, createdAt |-> t, lastActivity |-> t,
   messageCount |-> 0, messages |-> <<>>, expiresAt |-> 0]

\* Mutant of SetEx: a key that already has an expiry keeps it (fixed expiry).
SetEx_FixedExpiry(session, ttl, t) ==
  [session EXCEPT !.exists = TRUE,
                  !.expiresAt = IF session.expiresAt = 0 THEN t + ttl ELSE @]

\* redisClient.setEx(key, ttl, value) at time t.
SetEx(session, ttl, t) == [session EXCEPT !.exists = TRUE, !.expiresAt = t + ttl]

\* The body of updateSessionActivity between its get and its setEx
\* (session.js:114-132) at time t; botResponse is NoValue when not passed.
AppendTurn(session, userMessage, botResponse, t) ==
  LET withUser == Append(session.messages, [type |-> "user", content |-> userMessage])
      withBot == IF botResponse # NoValue
                   THEN Append(withUser, [type |-> "bot", content |-> botResponse])
                   ELSE withUser
  IN [session EXCEPT !.messages = withBot, !.messageCount = Len(withBot),
                     !.lastActivity = t]

\* A handler of POST /api/chat/message: pc is its position, read the session
\* the get of updateSessionActivity returned, readAt the time it returned.
\* What the upstreams of a POST /stream request would do if asked: the
\* number of documents the retrieval would find, the fragments the producer
\* would yield, whether it fails after the last of them instead of ending,
\* and the number of fragments after which the client disconnects (0: the
\* client stays to the end).
FragmentLists == {<<>>, <<"f1">>, <<"f1", "f2">>}
StreamPlans ==
  { p \in [docs : 0..1, fragments : FragmentLists, producerFails : BOOLEAN,
            clientLeavesAfter : 0..1] :
      p.clientLeavesAfter < Len(p.fragments) \/ p.clientLeavesAfter = 0 }
NoPlan ==
  [docs |-> 0, fragments |-> <<>>, producerFails |-> FALSE, clientLeavesAfter |-> 0]

FreeSlot ==
  [pc |-> "free", route |-> "none", sid |-> MissingId, message |-> MissingMessage,
   plan |-> NoPlan, read |-> AbsentKey, readAt |-> 0]

\* The fields of the body { message, sessionId } that !message || !sessionId
\* (chat.js:13, 50) finds missing.
MissingFields(sid, message) ==
  (IF message = MissingMessage THEN {"message"} ELSE {})
    \cup (IF sid = MissingId THEN {"sessionId"} ELSE {})

\* The response of a request and what its handler did: whether its body
\* lacked a field, the fragments written
\* to the response, the numbers of retrievals made, of calls of
\* generateStreamingResponse, and of fragments pulled from the producer.
NoResponse ==
  [route |-> "none", status |-> 0, success |-> FALSE, sid |-> MissingId,
   usaReturn |-> "none", usaThrew |-> FALSE, keyAbsent |-> FALSE,
   history |-> <<>>, messageCount |-> 0, lastActivity |-> 0, incomplete |-> FALSE,
   error |-> NoText,
   plan |-> NoPlan, written |-> <<>>, retrievals |-> 0, genCalls |-> 0,
   pulled |-> 0]

\* History of a session id: the texts of the POST /message requests
\* completed for it (turns); whether they were served one at a time, on the
\* existing session and without Redis errors (serial); the number of
\* updateSessionActivity calls that returned true (appends); the number of
\* requests whose call of the query processor returned (processed); the
\* number of requests received when the last clear of the session was
\* answered, 0 if none was (clearedUpTo); the texts the appends in flight at
\* that moment carried: their own message and the messages they had read
\* (carried).
NoHistory ==
  [turns |-> <<>>, serial |-> TRUE, appends |-> 0, processed |-> 0,
   clearedUpTo |-> 0, carried |-> {}]

InFlight(r) == reqs[r].pc \in {"usa_get", "usa_set"}

\* The texts held by the updateSessionActivity calls in flight for sid.
InFlightTexts(sid) ==
  UNION { {reqs[q].message}
            \cup {reqs[q].read.messages[i].content : i \in 1..Len(reqs[q].read.messages)} :
          q \in {q \in Slots : InFlight(q) /\ reqs[q].sid = sid} }

\* The history once the clear of request r has been answered with success.
ClearAnswered(r) ==
  IF reqs[r].sid \notin Uuids THEN hist ELSE
    [hist EXCEPT ![reqs[r].sid] =
       [@ EXCEPT !.clearedUpTo = nReqs, !.carried = InFlightTexts(reqs[r].sid)]]

\* Mutant of SessionToWrite: the turn is appended to the session as stored
\* at the time of the write.
SessionToWrite_FromStore(r) ==
  AppendTurn(store[reqs[r].sid], reqs[r].message, NoValue, reqs[r].readAt)

\* The value updateSessionActivity(sessionId, message) passes to setEx: the
\* session it read, with the turn appended (session.js:114-138; the call of
\* chat.js:21 passes no botResponse).
SessionToWrite(r) ==
  AppendTurn(reqs[r].read, reqs[r].message, NoValue, reqs[r].readAt)

\* The members of the object services/ragService.js exports
\* (module.exports = new RagService(), ragService.js:7-67).
RagServiceMembers ==
  {"collectionName", "embedQuery", "retrieveRelevantDocs", "formatContext", "answerQuery"}

\* const { processRAGQuery } = require('../services/ragService') (chat.js:3)
\* and its call (chat.js:24): the binding is undefined, the call raises a
\* TypeError, and the catch clause answers 500 (chat.js:36-42).
StatusAfterFirstUpdate ==
  IF "processRAGQuery" \in RagServiceMembers THEN 200 ELSE 500

\* const { getRelevantContext } = require('../services/ragService')
\* (chat.js:3) and its call in router.post('/stream') (chat.js:66): the
\* binding is undefined, the call raises a TypeError before any retrieval,
\* generateStreamingResponse call or res.write, and the catch clause answers
\* 500 (chat.js:83-89).
StreamStatusAfterFirstUpdate ==
  IF "getRelevantContext" \in RagServiceMembers THEN 200 ELSE 500

\* The handler of POST /message or POST /stream has finished for request r:
\* its first updateSessionActivity is over and the call that follows it has
\* thrown.
Finish(r, usaReturn, keyAbsent, redisError) ==
  /\ httpOut' = [NoResponse EXCEPT
                   !.route = reqs[r].route,
                   !.status = IF reqs[r].route = "stream"
                                THEN StreamStatusAfterFirstUpdate
                                ELSE StatusAfterFirstUpdate,
                   !.success = (IF reqs[r].route = "stream"
                                  THEN StreamStatusAfterFirstUpdate
                                  ELSE StatusAfterFirstUpdate) = 200,
                   !.error = IF reqs[r].route = "stream"
                               THEN (IF StreamStatusAfterFirstUpdate = 200 THEN NoText
                                     ELSE "Failed to process streaming message")
                               ELSE (IF StatusAfterFirstUpdate = 200 THEN NoText
                                     ELSE "Failed to process message"),
                   !.sid = reqs[r].sid, !.usaReturn = usaReturn,
                   !.keyAbsent = keyAbsent, !.plan = reqs[r].plan]
  /\ reqs' = [reqs EXCEPT ![r] = FreeSlot]
  /\ hist' = IF reqs[r].sid \notin Uuids THEN hist ELSE
       [hist EXCEPT ![reqs[r].sid] =
          [@ EXCEPT !.turns = Append(@, reqs[r].message),
                    !.serial = @ /\ ~redisError /\ ~keyAbsent,
                    !.appends = IF usaReturn = "true" THEN @ + 1 ELSE @,
                    !.processed = IF httpOut'.status = 200 THEN @ + 1 ELSE @]]

\* router.post('/create') (session.js:7-38) with a session id uuidv4() has
\* not handed out before, while fewer than limit sessions have been created.
\* (When setEx fails the route answers 500 and nothing is stored.)
CreateSessionWithin(limit) ==
  /\ UNCHANGED notSess
  /\ nextUuid < limit
  /\ nextUuid' = nextUuid + 1
  /\ store' = [store EXCEPT ![nextUuid + 1] =
                  SetEx(NewSession(nextUuid + 1, now), SessionTTL, now)]
  /\ httpOut' = [NoResponse EXCEPT !.route = "create", !.status = 200,
                                   !.success = TRUE, !.sid = nextUuid + 1]
  /\ UNCHANGED <<now, reqs, nReqs, hist>>

CreateSession == CreateSessionWithin(MaxSessions)

\* POST /api/chat/message with message or sessionId missing (chat.js:9-18).
PostMessageInvalid(sid, message) ==
  /\ UNCHANGED notSess
  /\ message \in {MissingMessage, TextOfRequest(nReqs + 1)}
  /\ MissingFields(sid, message) # {}
  /\ httpOut' = [NoResponse EXCEPT !.route = "message", !.status = 400,
                                   !.incomplete = MissingFields(sid, message) # {},
                                   !.error = "Message and sessionId are required"]
  /\ UNCHANGED <<now, store, nextUuid, reqs, nReqs, hist>>

\* POST /api/chat/message arrives (chat.js:9-21): after validation the
\* handler waits for the get of updateSessionActivity(sessionId, message),
\* while fewer than limit requests have been received.
PostMessageWithin(limit, r, sid, message) ==
  /\ UNCHANGED notSess
  /\ nReqs < limit
  /\ reqs[r].pc = "free"
  /\ \A q \in Slots : q < r => reqs[q].pc # "free"
  /\ message = TextOfRequest(nReqs + 1) /\ sid # MissingId
  /\ sid \in 1..nextUuid \cup {UnknownId}
  /\ nReqs' = nReqs + 1
  /\ reqs' = [reqs EXCEPT ![r] =
                [FreeSlot EXCEPT !.pc = "usa_get", !.route = "message",
                                 !.sid = sid, !.message = message]]
  /\ hist' = IF sid \notin Uuids THEN hist ELSE
       [hist EXCEPT ![sid].serial =
          @ /\ store[sid].exists /\ ~(\E q \in Slots : InFlight(q) /\ reqs[q].sid = sid)]
  /\ httpOut' = NoResponse
  /\ UNCHANGED <<now, store, nextUuid>>

PostMessage(r, sid, message) == PostMessageWithin(MaxReqs, r, sid, message)

\* Mutant of PostStreamInvalid: the body is validated after the first
\* updateSessionActivity.
PostStreamInvalid_AfterUpdate(sid, message) ==
  /\ UNCHANGED notSess
  /\ message \in {MissingMessage, TextOfRequest(nReqs + 1)}
  /\ MissingFields(sid, message) # {}
  /\ store' = IF sid \in Keys /\ store[sid].exists
                THEN [store EXCEPT ![sid] =
                        SetEx(AppendTurn(store[sid], message, NoValue, now), SessionTTL, now)]
                ELSE store
  /\ httpOut' = [NoResponse EXCEPT !.route = "stream", !.status = 400,
                                   !.incomplete = MissingFields(sid, message) # {},
                                   !.error = "Message and sessionId are required"]
  /\ UNCHANGED <<now, nextUuid, reqs, nReqs, hist>>

\* POST /api/chat/stream with message or sessionId missing (chat.js:46-55).
PostStreamInvalid(sid, message) ==
  /\ UNCHANGED notSess
  /\ message \in {MissingMessage, TextOfRequest(nReqs + 1)}
  /\ MissingFields(sid, message) # {}
  /\ httpOut' = [NoResponse EXCEPT !.route = "stream", !.status = 400,
                                   !.incomplete = MissingFields(sid, message) # {},
                                   !.error = "Message and sessionId are required"]
  /\ UNCHANGED <<now, store, nextUuid, reqs, nReqs, hist>>

\* POST /api/chat/stream arrives (chat.js:46-63): after validation and
\* setHeader the handler waits for the get of
\* updateSessionActivity(sessionId, message).
PostStream(r, sid, message, plan) ==
  /\ UNCHANGED notSess
  /\ nReqs < MaxReqs
  /\ reqs[r].pc = "free"
  /\ \A q \in Slots : q < r => reqs[q].pc # "free"
  /\ message = TextOfRequest(nReqs + 1) /\ sid # MissingId
  /\ sid \in 1..nextUuid \cup {UnknownId}
  /\ nReqs' = nReqs + 1
  /\ reqs' = [reqs EXCEPT ![r] =
                [FreeSlot EXCEPT !.pc = "usa_get", !.route = "stream",
                                 !.sid = sid, !.message = message, !.plan = plan]]
  /\ hist' = IF sid \notin Uuids THEN hist ELSE
       [hist EXCEPT ![sid].serial =
          @ /\ store[sid].exists /\ ~(\E q \in Slots : InFlight(q) /\ reqs[q].sid = sid)]
  /\ httpOut' = NoResponse
  /\ UNCHANGED <<now, store, nextUuid>>

\* redisClient.get of updateSessionActivity fails: the catch clause returns
\* false (session.js:142-145); the handler goes on to processRAGQuery and
\* answers as StatusAfterFirstUpdate says.
UsaGetFails(r) ==
  /\ UNCHANGED notSess
  /\ reqs[r].pc = "usa_get"
  /\ Finish(r, "false", FALSE, TRUE)
  /\ UNCHANGED <<now, store, nextUuid, nReqs>>

\* redisClient.get of updateSessionActivity answers (session.js:111-132).
\* Key absent or expired: return false (line 112), and the handler goes on
\* to processRAGQuery and answers.  Otherwise the session is parsed, the turn
\* appended, and setEx sent.
UsaGet(r) ==
  /\ UNCHANGED notSess
  /\ reqs[r].pc = "usa_get"
  /\ IF ~store[reqs[r].sid].exists
       THEN Finish(r, "false", TRUE, FALSE)
       ELSE /\ reqs' = [reqs EXCEPT ![r] =
                          [@ EXCEPT !.pc = "usa_set", !.read = store[reqs[r].sid],
                                    !.readAt = now]]
            /\ httpOut' = NoResponse
            /\ UNCHANGED hist
  /\ UNCHANGED <<now, store, nextUuid, nReqs>>

\* redisClient.setEx of updateSessionActivity completes (session.js:134-141):
\* return true; the handler goes on to processRAGQuery and answers.
UsaSet(r) ==
  /\ UNCHANGED notSess
  /\ reqs[r].pc = "usa_set"
  /\ store' = [store EXCEPT ![reqs[r].sid] = SetEx(SessionToWrite(r), SessionTTL, now)]
  /\ Finish(r, "true", FALSE, FALSE)
  /\ UNCHANGED <<now, nextUuid, nReqs>>

\* redisClient.setEx of updateSessionActivity fails: the catch clause returns
\* false (session.js:142-145) and nothing is written.
UsaSetFails(r) ==
  /\ UNCHANGED notSess
  /\ reqs[r].pc = "usa_set"
  /\ Finish(r, "false", FALSE, TRUE)
  /\ UNCHANGED <<now, store, nextUuid, nReqs>>

\* Mutant of ClearedSession: messageCount is not reset.
ClearedSession_KeepCount(session, t) ==
  [session EXCEPT !.messages = <<>>, !.lastActivity = t]

\* Mutant of ClearedSession: the message list is kept.
ClearedSession_KeepMessages(session, t) == [session EXCEPT !.lastActivity = t]

\* session.messages = []; session.messageCount = 0; session.lastActivity =
\* new Date() of router.delete('/:sessionId') (session.js:83-86) at time t.
ClearedSession(session, t) ==
  [session EXCEPT !.messages = <<>>, !.messageCount = 0, !.lastActivity = t]

\* Mutant of ClearGet: no test of the value the get returned.
ClearGet_NoAbsentCheck(r, sid) ==
  /\ UNCHANGED notSess
  /\ reqs[r].pc = "free"
  /\ \A q \in Slots : q < r => reqs[q].pc # "free"
  /\ sid \in 1..nextUuid \cup {UnknownId}
  /\ nReqs < MaxReqs
  /\ nReqs' = nReqs + 1
  /\ reqs' = [reqs EXCEPT ![r] =
                [FreeSlot EXCEPT !.pc = "clr_set", !.route = "clear",
                                 !.sid = sid, !.read = store[sid], !.readAt = now]]
  /\ httpOut' = NoResponse
  /\ UNCHANGED <<now, store, nextUuid, hist>>

\* DELETE /api/session/:sessionId arrives and its redisClient.get answers
\* (session.js:70-86).  Key absent or expired: 404.  Otherwise the session is
\* parsed and reset, and setEx sent (while fewer than limit requests have been
\* received).
ClearGetWithin(limit, r, sid) ==
  /\ UNCHANGED notSess
  /\ reqs[r].pc = "free"
  /\ \A q \in Slots : q < r => reqs[q].pc # "free"
  /\ sid \in 1..nextUuid \cup {UnknownId}
  /\ IF ~store[sid].exists
       THEN /\ httpOut' = [NoResponse EXCEPT !.route = "clear", !.status = 404,
                                             !.sid = sid, !.keyAbsent = TRUE,
                                             !.error = "Session not found"]
            /\ UNCHANGED <<reqs, nReqs>>
       ELSE /\ nReqs < limit
            /\ nReqs' = nReqs + 1
            /\ reqs' = [reqs EXCEPT ![r] =
                          [FreeSlot EXCEPT !.pc = "clr_set", !.route = "clear",
                                           !.sid = sid, !.read = store[sid],
                                           !.readAt = now]]
            /\ httpOut' = NoResponse
  /\ UNCHANGED <<now, store, nextUuid, hist>>

ClearGet(r, sid) == ClearGetWithin(MaxReqs, r, sid)

\* redisClient.get of router.delete('/:sessionId') fails: the catch clause
\* answers 500 (session.js:99-105).
ClearGetFails ==
  /\ UNCHANGED notSess
  /\ httpOut' = [NoResponse EXCEPT !.route = "clear", !.status = 500,
                                   !.usaThrew = TRUE,
                                   !.error = "Failed to clear session"]
  /\ UNCHANGED <<now, store, nextUuid, reqs, nReqs, hist>>

\* Mutant of ClearSet: the clear is answered without the write.
ClearSet_NoWrite(r) ==
  /\ UNCHANGED notSess
  /\ reqs[r].pc = "clr_set"
  /\ httpOut' = [NoResponse EXCEPT !.route = "clear", !.status = 200,
                                   !.success = TRUE, !.sid = reqs[r].sid]
  /\ reqs' = [reqs EXCEPT ![r] = FreeSlot]
  /\ hist' = ClearAnswered(r)
  /\ UNCHANGED <<now, store, nextUuid, nReqs>>

\* Mutant of ClearSet: every stored session is reset.
ClearSet_AllKeys(r) ==
  /\ UNCHANGED notSess
  /\ reqs[r].pc = "clr_set"
  /\ store' = [id \in Keys |->
                 IF id = reqs[r].sid
                   THEN SetEx(ClearedSession(reqs[r].read, reqs[r].readAt), SessionTTL, now)
                   ELSE IF store[id].exists
                          THEN SetEx(ClearedSession(store[id], reqs[r].readAt), SessionTTL, now)
                          ELSE store[id]]
  /\ httpOut' = [NoResponse EXCEPT !.route = "clear", !.status = 200,
                                   !.success = TRUE, !.sid = reqs[r].sid]
  /\ reqs' = [reqs EXCEPT ![r] = FreeSlot]
  /\ hist' = ClearAnswered(r)
  /\ UNCHANGED <<now, nextUuid, nReqs>>

\* redisClient.setEx of router.delete('/:sessionId') completes
\* (session.js:88-98).
ClearSet(r) ==
  /\ UNCHANGED notSess
  /\ reqs[r].pc = "clr_set"
  /\ store' = [store EXCEPT ![reqs[r].sid] =
                  SetEx(ClearedSession(reqs[r].read, reqs[r].readAt), SessionTTL, now)]
  /\ httpOut' = [NoResponse EXCEPT !.route = "clear", !.status = 200,
                                   !.success = TRUE, !.sid = reqs[r].sid]
  /\ reqs' = [reqs EXCEPT ![r] = FreeSlot]
  /\ hist' = ClearAnswered(r)
  /\ UNCHANGED <<now, nextUuid, nReqs>>

\* redisClient.setEx of router.delete('/:sessionId') fails: 500, nothing
\* written (session.js:99-105).
ClearSetFails(r) ==
  /\ UNCHANGED notSess
  /\ reqs[r].pc = "clr_set"
  /\ httpOut' = [NoResponse EXCEPT !.route = "clear", !.status = 500,
                                   !.sid = reqs[r].sid, !.usaThrew = TRUE,
                                   !.error = "Failed to clear session"]
  /\ reqs' = [reqs EXCEPT ![r] = FreeSlot]
  /\ UNCHANGED <<now, store, nextUuid, nReqs, hist>>

\* Mutant of GetHistory: reading a session restarts its TTL.
GetHistory_Touch(sid) ==
  /\ UNCHANGED notSess
  /\ sid \in 1..nextUuid \cup {UnknownId}
  /\ httpOut' =
       IF ~store[sid].exists
         THEN [NoResponse EXCEPT !.route = "history", !.status = 404,
                                 !.sid = sid, !.keyAbsent = TRUE,
                                 !.error = "Session not found or expired"]
         ELSE [NoResponse EXCEPT !.route = "history", !.status = 200,
                                 !.success = TRUE, !.sid = sid,
                                 !.history = store[sid].messages,
                                 !.messageCount = store[sid].messageCount,
                                 !.lastActivity = store[sid].lastActivity]
  /\ store' = IF store[sid].exists
                THEN [store EXCEPT ![sid] = SetEx(store[sid], SessionTTL, now)]
                ELSE store
  /\ UNCHANGED <<now, nextUuid, reqs, nReqs, hist>>

\* GET /api/session/:sessionId/history (session.js:41-59).
GetHistory(sid) ==
  /\ UNCHANGED notSess
  /\ sid \in 1..nextUuid \cup {UnknownId}
  /\ httpOut' =
       IF ~store[sid].exists
         THEN [NoResponse EXCEPT !.route = "history", !.status = 404,
                                 !.sid = sid, !.keyAbsent = TRUE,
                                 !.error = "Session not found or expired"]
         ELSE [NoResponse EXCEPT !.route = "history", !.status = 200,
                                 !.success = TRUE, !.sid = sid,
                                 !.history = store[sid].messages,
                                 !.messageCount = store[sid].messageCount,
                                 !.lastActivity = store[sid].lastActivity]
  /\ UNCHANGED <<now, store, nextUuid, reqs, nReqs, hist>>

\* redisClient.get of the history route fails: 500 (session.js:60-66).
GetHistoryFails ==
  /\ UNCHANGED notSess
  /\ httpOut' = [NoResponse EXCEPT !.route = "history", !.status = 500,
                                   !.usaThrew = TRUE,
                                   !.error = "Failed to fetch session history"]
  /\ UNCHANGED <<now, store, nextUuid, reqs, nReqs, hist>>

\* Time passes; Redis drops the keys whose TTL has run out.
Tick ==
  /\ UNCHANGED notSess
  /\ now < MaxTime
  /\ now' = now + 1
  /\ store' = [id \in Keys |->
                 IF store[id].exists /\ store[id].expiresAt <= now + 1
                   THEN AbsentKey ELSE store[id]]
  /\ httpOut' = NoResponse
  /\ UNCHANGED <<nextUuid, reqs, nReqs, hist>>

SessInit ==
  /\ now = 0
  /\ store = [id \in Keys |-> AbsentKey]
  /\ nextUuid = 0
  /\ reqs = [r \in Slots |-> FreeSlot]
  /\ nReqs = 0
  /\ httpOut = NoResponse
  /\ hist = [id \in Uuids |-> NoHistory]

SessNext ==
  \/ CreateSession
  \/ \E sid \in Keys \cup {MissingId}, m \in UserMessages \cup {MissingMessage} :
       PostMessageInvalid(sid, m)
  \/ \E r \in Slots, sid \in Keys, m \in UserMessages : PostMessage(r, sid, m)
  \/ \E r \in Slots : UsaGetFails(r)
  \/ \E r \in Slots : UsaGet(r)
  \/ \E r \in Slots : UsaSet(r)
  \/ \E r \in Slots : UsaSetFails(r)
  \/ Tick

\* The chat routes with their validation of the request body, at one time.
ChatNext ==
  \/ CreateSession
  \/ \E sid \in Keys \cup {MissingId}, m \in UserMessages \cup {MissingMessage} :
       PostMessageInvalid(sid, m)
  \/ \E sid \in Keys \cup {MissingId}, m \in UserMessages \cup {MissingMessage} :
       PostStreamInvalid(sid, m)
  \/ \E r \in Slots, sid \in Keys, m \in UserMessages : PostMessage(r, sid, m)
  \/ \E r \in Slots : UsaGetFails(r)
  \/ \E r \in Slots : UsaGet(r)
  \/ \E r \in Slots : UsaSet(r)
  \/ \E r \in Slots : UsaSetFails(r)

\* The three transports of the query path.  The socket handlers and the
\* HTTP handlers read and write no state in common, so a behaviour serves
\* either sockets or HTTP requests: each group of steps is taken only while
\* the other transport has not been used.
HttpUnused == nReqs = 0 /\ nextUuid = 0 /\ httpOut = NoResponse
SocketsUnused == \A x \in Sockets : sockState[x] = "new"
TransportNext ==
  \/ HttpUnused /\ SockNext
  \/ SocketsUnused /\ CreateSession
  \/ SocketsUnused
       /\ \E sid \in Keys \cup {MissingId}, m \in UserMessages \cup {MissingMessage} :
            PostMessageInvalid(sid, m)
  \/ SocketsUnused
       /\ \E sid \in Keys \cup {MissingId}, m \in UserMessages \cup {MissingMessage} :
            PostStreamInvalid(sid, m)
  \/ SocketsUnused
       /\ \E r \in Slots, sid \in Keys, m \in UserMessages : PostMessage(r, sid, m)
  \/ SocketsUnused
       /\ \E r \in Slots, sid \in Keys, m \in UserMessages : PostStream(r, sid, m, NoPlan)
  \/ SocketsUnused /\ \E r \in Slots : UsaGetFails(r)
  \/ SocketsUnused /\ \E r \in Slots : UsaGet(r)
  \/ SocketsUnused /\ \E r \in Slots : UsaSet(r)
  \/ SocketsUnused /\ \E r \in Slots : UsaSetFails(r)

\* The session routes and the appends of the chat route on one Redis.
StoreNext ==
  \/ CreateSessionWithin(MaxStoreSessions)
  \/ \E r \in Slots, sid \in Keys, m \in UserMessages : PostMessage(r, sid, m)
  \/ \E r \in Slots : UsaGetFails(r)
  \/ \E r \in Slots : UsaGet(r)
  \/ \E r \in Slots : UsaSet(r)
  \/ \E r \in Slots : UsaSetFails(r)
  \/ \E r \in Slots, sid \in Keys : ClearGet(r, sid)
  \/ ClearGetFails
  \/ \E r \in Slots : ClearSet(r)
  \/ \E r \in Slots : ClearSetFails(r)
  \/ \E sid \in Keys : GetHistory(sid)
  \/ GetHistoryFails
  \/ Tick

(***************************************************************************)
(* CacheService: services/cacheService.js.                                 *)
(*                                                                         *)
(* A query is a sequence of character codes.  The stored value keeps the   *)
(* result of the data object; its timestamp and query fields are left out. *)
(* The TTL of a key running out is the step ExpireKey.                     *)
(***************************************************************************)
Space == 32
UpperA == 65
LowerA == 97
Chars == {Space, UpperA, LowerA}
QueryStrings == UNION {[1..k -> Chars] : k \in 0..MaxLen}
CachedResults == {"r1", "r2"}

\* String.prototype.toLowerCase on the letters A..Z.
ToLowerCase(s) ==
  [i \in 1..Len(s) |-> IF s[i] >= 65 /\ s[i] <= 90 THEN s[i] + 32 ELSE s[i]]

RECURSIVE TrimStart(_)
TrimStart(s) ==
  IF Len(s) > 0 /\ s[1] = Space THEN TrimStart(SubSeq(s, 2, Len(s))) ELSE s

RECURSIVE TrimEnd(_)
TrimEnd(s) ==
  IF Len(s) > 0 /\ s[Len(s)] = Space THEN TrimEnd(SubSeq(s, 1, Len(s) - 1)) ELSE s

\* String.prototype.trim.
Trim(s) == TrimEnd(TrimStart(s))

\* Buffer.from(string): the UTF-8 bytes; a character below 128 is one byte.
Utf8(s) == s

\* Buffer.prototype.toString('base64'): three bytes give four digits of six
\* bits; a last group of one or two bytes is padded with '=' (digit 64 here).
RECURSIVE Base64(_)
Base64(bytes) ==
  IF Len(bytes) = 0 THEN <<>>
  ELSE IF Len(bytes) = 1 THEN
    << bytes[1] \div 4, (bytes[1] % 4) * 16, 64, 64 >>
  ELSE IF Len(bytes) = 2 THEN
    << bytes[1] \div 4, (bytes[1] % 4) * 16 + bytes[2] \div 16,
       (bytes[2] % 16) * 4, 64 >>
  ELSE
    << bytes[1] \div 4, (bytes[1] % 4) * 16 + bytes[2] \div 16,
       (bytes[2] % 16) * 4 + bytes[3] \div 64, bytes[3] % 64 >>
      \o Base64(SubSeq(bytes, 4, Len(bytes)))

\* Mutant of getQueryCacheKey: the case of the query is kept.
getQueryCacheKey_KeepCase(query) ==
  [prefix |-> "query:", base64 |-> Base64(Utf8(Trim(query)))]

\* Mutant of getQueryCacheKey: the query is not trimmed.
getQueryCacheKey_NoTrim(query) ==
  [prefix |-> "query:", base64 |-> Base64(Utf8(ToLowerCase(query)))]

\* getQueryCacheKey (cacheService.js:92-94).
getQueryCacheKey(query) ==
  [prefix |-> "query:", base64 |-> Base64(Utf8(Trim(ToLowerCase(query))))]

\* The key of every query, and the keys there are.
KeyOf == [q \in QueryStrings |-> getQueryCacheKey(q)]
CacheKeys == {KeyOf[q] : q \in QueryStrings}

\* A query trimmed, then folded to lower case.
TrimmedLowerCase(query) == ToLowerCase(Trim(query))
NormalFormOf == [q \in QueryStrings |-> TrimmedLowerCase(q)]
NormalForms == {NormalFormOf[q] : q \in QueryStrings}

NoEntry == [exists |-> FALSE, result |-> NoValue]
Entry(result) == [exists |-> TRUE, result |-> result]

\* What getCachedQueryResult returns: null, or the cached result with
\* fromCache: true (cacheService.js:31-40).
Null == [fromCache |-> "absent", result |-> NoValue]
CacheHit(result) == [fromCache |-> "true", result |-> result]

\* getCachedQueryResult(query) on cache contents c when Redis answers
\* (cacheService.js:28-40).
ReadBack(c, query) ==
  LET cached == c[KeyOf[query]]
  IN IF cached.exists THEN CacheHit(cached.result) ELSE Null

\* session is the session whose query the caller of CacheService is
\* serving, NoSession when the model does not say; afterWrite is, for a
\* read, the session of the write made in the step before it.
NoCacheOp ==
  [kind |-> "none", query |-> <<>>, result |-> NoValue, redisOk |-> TRUE,
   returned |-> Null, session |-> NoSession, afterWrite |-> NoSession]

\* cacheQueryResult(query, result) (cacheService.js:9-24) when setEx stores
\* the data under the key: the call returns true.
CacheQueryResultFor(session, query, result) ==
  /\ UNCHANGED notCache
  /\ cache' = [cache EXCEPT ![KeyOf[query]] = Entry(result)]
  /\ written' = [written EXCEPT ![NormalFormOf[query]] = Entry(result)]
  /\ cacheOp' = [NoCacheOp EXCEPT !.kind = "write", !.query = query,
                                  !.result = result, !.session = session]

CacheQueryResult(query, result) == CacheQueryResultFor(NoSession, query, result)

\* cacheQueryResult of any query when setEx fails: the catch clause returns
\* false (cacheService.js:20-23) and nothing is stored.
CacheQueryResultFails ==
  /\ UNCHANGED notCache
  /\ cacheOp' = [NoCacheOp EXCEPT !.kind = "write", !.redisOk = FALSE]
  /\ UNCHANGED <<cache, written>>

\* getCachedQueryResult(query) (cacheService.js:26-40) when get answers.
GetCachedQueryResultFor(session, query) ==
  /\ UNCHANGED notCache
  /\ cacheOp' = [NoCacheOp EXCEPT
                   !.kind = "read", !.query = query,
                   !.returned = ReadBack(cache, query), !.session = session,
                   !.afterWrite = IF cacheOp.kind = "write" /\ cacheOp.redisOk
                                    THEN cacheOp.session ELSE NoSession]
  /\ UNCHANGED <<cache, written>>

GetCachedQueryResult(query) == GetCachedQueryResultFor(NoSession, query)

\* getCachedQueryResult of any query when get fails: the catch clause
\* returns null (cacheService.js:41-44).
GetCachedQueryResultFails ==
  /\ UNCHANGED notCache
  /\ cacheOp' = [NoCacheOp EXCEPT !.kind = "read", !.redisOk = FALSE]
  /\ UNCHANGED <<cache, written>>

\* The TTL of a key runs out.
ExpireKey(key) ==
  /\ UNCHANGED notCache
  /\ cache[key].exists
  /\ cache' = [cache EXCEPT ![key] = NoEntry]
  /\ written' = [n \in NormalForms |-> IF KeyOf[n] = key THEN NoEntry ELSE written[n]]
  /\ cacheOp' = NoCacheOp

CacheInit ==
  /\ cache = [k \in CacheKeys |-> NoEntry]
  /\ written = [n \in NormalForms |-> NoEntry]
  /\ cacheOp = NoCacheOp

CacheNext ==
  \/ \E q \in QueryStrings, res \in CachedResults : CacheQueryResult(q, res)
  \/ CacheQueryResultFails
  \/ \E q \in QueryStrings : GetCachedQueryResult(q)
  \/ GetCachedQueryResultFails
  \/ \E k \in CacheKeys : ExpireKey(k)

\* CacheService called on behalf of the queries of several sessions.
SharedCacheNext ==
  \/ \E sess \in RagSessionIds, q \in QueryStrings, res \in CachedResults :
       CacheQueryResultFor(sess, q, res)
  \/ CacheQueryResultFails
  \/ \E sess \in RagSessionIds, q \in QueryStrings : GetCachedQueryResultFor(sess, q)
  \/ GetCachedQueryResultFails
  \/ \E k \in CacheKeys : ExpireKey(k)

(***************************************************************************)
(* Ingestion: NewsIngestionService.createEmbeddings (scripts/ingestNews.js)*)
(* with GoogleEmbeddingsClient.embed (config/embeddings.js,                *)
(* src/unnamed/part_002).                                                  *)
(*                                                                         *)
(* Articles are numbered 1..n in the order of this.articles.  A vector is  *)
(* named by the number of the article whose text it embeds; InvalidVector  *)
(* is an element of the response that is not an array (null, undefined).   *)
(***************************************************************************)
InvalidVector == 0
JunkVector == MaxArticles + 2
NoError == "none"
EmbedFailedError == "Failed to create embeddings"
MismatchError == "API returned a number of embeddings different from the batch. Mismatch occurred."
InvalidEmbeddingError == "Invalid embedding received from API for this article."

\* What model.batchEmbedContents answers for the texts of a batch, read
\* through result.embeddings.map(e => e.values) (part_002:22-29): the vectors
\* of the positions in keep, in the order of the texts, those of the
\* positions in broken without values.
RECURSIVE EmbedResponse(_, _, _, _)
EmbedResponse(batch, keep, broken, p) ==
  IF p > Len(batch) THEN <<>>
  ELSE (IF p \in keep
          THEN <<IF p \in broken THEN InvalidVector ELSE batch[p]>>
          ELSE <<>>)
       \o EmbedResponse(batch, keep, broken, p + 1)

\* this.articles.slice(i, i + this.batchSize) (ingestNews.js:285).
Slice(n, i) == [j \in 1..Min(BatchSize, n - i) |-> i + j]

NullEntry(article, message) ==
  [article |-> article, embedding |-> InvalidVector, embeddingError |-> message]

\* Mutant of PairEntries: the article at position j is paired with the
\* vector of the position after it (the first, for the last article).
PairEntries_Shifted(batch, batchEmbeddings) ==
  [j \in 1..Len(batch) |->
     LET v == IF Len(batchEmbeddings) = 0 THEN InvalidVector
              ELSE batchEmbeddings[(j % Len(batchEmbeddings)) + 1]
     IN IF v = InvalidVector
          THEN NullEntry(batch[j], InvalidEmbeddingError)
          ELSE [article |-> batch[j], embedding |-> v, embeddingError |-> NoError]]

\* The loop over the batch (ingestNews.js:307-328).
PairEntries(batch, batchEmbeddings) ==
  [j \in 1..Len(batch) |->
     IF j > Len(batchEmbeddings) \/ batchEmbeddings[j] = InvalidVector
       THEN NullEntry(batch[j], InvalidEmbeddingError)
       ELSE [article |-> batch[j], embedding |-> batchEmbeddings[j],
             embeddingError |-> NoError]]

\* The catch clause of the batch (ingestNews.js:338-348).
FailedEntries(batch, message) == [j \in 1..Len(batch) |-> NullEntry(batch[j], message)]

\* Mutant of BatchEntries: no comparison of the two lengths.
BatchEntries_NoLengthCheck(batch, batchEmbeddings, threw) ==
  IF threw THEN FailedEntries(batch, EmbedFailedError)
  ELSE PairEntries(batch, batchEmbeddings)

\* What one iteration of the loop over the batches pushes to
\* articlesWithEmbeddings (ingestNews.js:287-348): threw says that
\* embeddings.embed raised its error.
BatchEntries(batch, batchEmbeddings, threw) ==
  IF threw THEN FailedEntries(batch, EmbedFailedError)
  ELSE IF Len(batchEmbeddings) # Len(batch) THEN FailedEntries(batch, MismatchError)
  ELSE PairEntries(batch, batchEmbeddings)

\* calls is the history of the embed calls: the first article of the batch
\* less one, the size of the batch, the number of vectors returned (-1
\* when embed raised), and the vectors returned.
IdleIngestion ==
  [pc |-> "idle", n |-> 0, i |-> 0, out |-> <<>>, processedCount |-> 0,
   calls |-> <<>>]

\* createEmbeddings is called with n articles collected (ingestNews.js:274-282).
CE_Start(n) ==
  /\ UNCHANGED notIng
  /\ ing.pc = "idle"
  /\ ing' = [IdleIngestion EXCEPT !.pc = IF n = 0 THEN "done" ELSE "batch", !.n = n]

\* One iteration of the loop over the batches.
CE_Iterate(batchEmbeddings, threw) ==
  LET batch == Slice(ing.n, ing.i)
      entries == BatchEntries(batch, batchEmbeddings, threw)
      ok == ~threw /\ Len(batchEmbeddings) = Len(batch)
  IN /\ ing' = [ing EXCEPT
                  !.out = @ \o entries,
                  !.processedCount = IF ok THEN @ + Len(batch) ELSE @,
                  !.calls = Append(@, [from |-> ing.i, size |-> Len(batch),
                                       returned |-> IF threw THEN -1
                                                    ELSE Len(batchEmbeddings),
                                       vectors |-> IF threw THEN <<>>
                                                   ELSE batchEmbeddings]),
                  !.i = @ + BatchSize,
                  !.pc = IF ing.i + BatchSize < ing.n THEN "batch" ELSE "done"]

\* embeddings.embed answers with some of the vectors.
CE_Batch(keep, broken) ==
  /\ UNCHANGED notIng
  /\ ing.pc = "batch"
  /\ keep \subseteq 1..Len(Slice(ing.n, ing.i))
  /\ broken \subseteq keep
  /\ CE_Iterate(EmbedResponse(Slice(ing.n, ing.i), keep, broken, 1), FALSE)

\* embeddings.embed answers with one vector more than texts.
CE_BatchExtra ==
  /\ UNCHANGED notIng
  /\ ing.pc = "batch"
  /\ CE_Iterate(Append(Slice(ing.n, ing.i), JunkVector), FALSE)

\* model.batchEmbedContents fails: embed raises 'Failed to create embeddings'
\* (part_002:30-33).
CE_BatchThrows ==
  /\ UNCHANGED notIng
  /\ ing.pc = "batch"
  /\ CE_Iterate(<<>>, TRUE)

\* The run is over; the service is used for another run.
CE_Return ==
  /\ UNCHANGED notIng
  /\ ing.pc = "done"
  /\ ing' = IdleIngestion

IngInit == ing = IdleIngestion

IngNext ==
  \/ \E n \in 0..MaxArticles : CE_Start(n)
  \/ \E keep \in SUBSET (1..BatchSize) : \E broken \in SUBSET keep : CE_Batch(keep, broken)
  \/ CE_BatchExtra
  \/ CE_BatchThrows
  \/ CE_Return

(***************************************************************************)
(* Vector store: initializeCollection (config/qdrant.js) as called by      *)
(* NewsIngestionService.storeInVectorDB (scripts/ingestNews.js).           *)
(*                                                                         *)
(* Each ingestion process is a caller; a call is split at its awaits.  A   *)
(* point is named by the caller and the run that stored it.                *)
(***************************************************************************)
Callers == 1..MaxCallers

NoCollection == [exists |-> FALSE, size |-> 0, distance |-> "none", points |-> {}]

\* client.recreateCollection(collectionName, { vectors: vectorParams })
\* (qdrant.js:28-37): the collection of that name is deleted if there is one
\* and created anew, empty.
RecreateCollection ==
  [exists |-> TRUE, size |-> VectorSize, distance |-> "Cosine", points |-> {}]

IdleCaller == [pc |-> "idle", runs |-> 0, result |-> "none"]

\* storeInVectorDB is called and calls initializeCollection, which sends
\* client.getCollection (ingestNews.js:355-357, qdrant.js:16-19).
SV_Call(c) ==
  /\ UNCHANGED notQd
  /\ callers[c].pc = "idle"
  /\ callers[c].runs < MaxRuns
  /\ callers' = [callers EXCEPT ![c] =
                   [pc |-> "lookup", runs |-> @.runs + 1, result |-> "none"]]
  /\ UNCHANGED qd

\* getCollection answers that the collection exists: initializeCollection
\* returns (qdrant.js:19-20).
IC_Found(c) ==
  /\ UNCHANGED notQd
  /\ callers[c].pc = "lookup"
  /\ qd.exists
  /\ callers' = [callers EXCEPT ![c].pc = "upsert", ![c].result = "returned"]
  /\ UNCHANGED qd

\* getCollection fails with status 404: recreateCollection is sent
\* (qdrant.js:21-35).
IC_NotFound(c) ==
  /\ UNCHANGED notQd
  /\ callers[c].pc = "lookup"
  /\ ~qd.exists
  /\ callers' = [callers EXCEPT ![c].pc = "create"]
  /\ UNCHANGED qd

\* getCollection fails with another error: it is thrown again (qdrant.js:
\* 39-43) and storeInVectorDB ends with it.
IC_LookupFails(c) ==
  /\ UNCHANGED notQd
  /\ callers[c].pc = "lookup"
  /\ callers' = [callers EXCEPT ![c].pc = "idle", ![c].result = "threw"]
  /\ UNCHANGED qd

\* recreateCollection completes: initializeCollection returns
\* (qdrant.js:35-38).
IC_Recreate(c) ==
  /\ UNCHANGED notQd
  /\ callers[c].pc = "create"
  /\ qd' = RecreateCollection
  /\ callers' = [callers EXCEPT ![c].pc = "upsert", ![c].result = "returned"]

\* recreateCollection fails: the error leaves the catch clause
\* (qdrant.js:35) and storeInVectorDB ends with it.
IC_RecreateFails(c) ==
  /\ UNCHANGED notQd
  /\ callers[c].pc = "create"
  /\ callers' = [callers EXCEPT ![c].pc = "idle", ![c].result = "threw"]
  /\ UNCHANGED qd

\* The points of the run are upserted (ingestNews.js:375-393); when the
\* collection is missing the error of the upsert is logged.
SV_Upsert(c) ==
  /\ UNCHANGED notQd
  /\ callers[c].pc = "upsert"
  /\ qd' = IF qd.exists
             THEN [qd EXCEPT !.points = @ \cup {<<c, callers[c].runs>>}]
             ELSE qd
  /\ callers' = [callers EXCEPT ![c].pc = "idle"]

\* No article has a valid embedding: storeInVectorDB returns 0
\* (ingestNews.js:358-362).
SV_NothingToStore(c) ==
  /\ UNCHANGED notQd
  /\ callers[c].pc = "upsert"
  /\ callers' = [callers EXCEPT ![c].pc = "idle"]
  /\ UNCHANGED qd

QdInit ==
  /\ qd = NoCollection
  /\ callers = [c \in Callers |-> IdleCaller]

QdNext ==
  \E c \in Callers :
    \/ SV_Call(c)
    \/ IC_Found(c)
    \/ IC_NotFound(c)
    \/ IC_LookupFails(c)
    \/ IC_Recreate(c)
    \/ IC_RecreateFails(c)
    \/ SV_Upsert(c)
    \/ SV_NothingToStore(c)

Init == RagInit /\ SockInit /\ SessInit /\ CacheInit /\ IngInit /\ QdInit

Spec == Init /\ [][RagNext]_vars

SpecSocket == Init /\ [][SockNext]_vars

SpecSession == Init /\ [][SessNext]_vars

SpecCache == Init /\ [][CacheNext]_vars

\* The session store and POST /api/chat/stream.
StreamNext ==
  \/ CreateSession
  \/ \E sid \in Keys \cup {MissingId}, m \in UserMessages \cup {MissingMessage} :
       PostStreamInvalid(sid, m)
  \/ \E r \in Slots, sid \in Keys, m \in UserMessages, plan \in StreamPlans :
       PostStream(r, sid, m, plan)
  \/ \E r \in Slots : UsaGetFails(r)
  \/ \E r \in Slots : UsaGet(r)
  \/ \E r \in Slots : UsaSet(r)
  \/ \E r \in Slots : UsaSetFails(r)

SpecStream == Init /\ [][StreamNext]_vars

\* The transport together with the creation of sessions.
ServerNext == SockNext \/ CreateSession

SpecServer == Init /\ [][ServerNext]_vars

SpecStore == Init /\ [][StoreNext]_vars

SpecChat == Init /\ [][ChatNext]_vars

SpecIngest == Init /\ [][IngNext]_vars

SpecQdrant == Init /\ [][QdNext]_vars

SpecTransport == Init /\ [][TransportNext]_vars

SpecSharedCache == Init /\ [][SharedCacheNext]_vars

\* One session with its creation, appends and clears, at one time.
TurnsNext ==
  \/ CreateSession
  \/ \E r \in Slots, sid \in Keys, m \in UserMessages :
       PostMessageWithin(MaxTurnReqs, r, sid, m)
  \/ \E r \in Slots : UsaGetFails(r)
  \/ \E r \in Slots : UsaGet(r)
  \/ \E r \in Slots : UsaSet(r)
  \/ \E r \in Slots : UsaSetFails(r)
  \/ \E r \in Slots, sid \in Keys : ClearGetWithin(MaxTurnReqs, r, sid)
  \/ \E r \in Slots : ClearSet(r)
  \/ \E r \in Slots : ClearSetFails(r)

SpecTurns == Init /\ [][TurnsNext]_vars

(***************************************************************************)
(* Properties of the query processors (checked under Spec).                *)
(***************************************************************************)

\* C1: whenever the vector search of a query processor has returned zero
\* hits, the call is complete, its answer is the fixed "no relevant
\* information" answer with hasRelevantContext = false, and the generation
\* model was never called for it.
C1_ZeroHitsSkipGeneration ==
  (call.proc \in Processors /\ call.searched = "returned" /\ Len(call.hits) = 0)
    => /\ call.pc = "done"
       /\ call.outcome = "returned"
       /\ call.answer = NoInfoAnswer
       /\ call.hasRelevantContext = "false"
       /\ call.sources = <<>>
       /\ call.modelCalls = 0

C1_Witness ==
  /\ call.proc = "processRAGQuery" /\ call.pc = "done"
  /\ call.searched = "returned" /\ Len(call.hits) = 0
  /\ call.embedCalls = 1 /\ call.searchCalls = 1

\* C2: a call that starts after a call of the same processor with the same
\* (sessionId, query) completed with a generated answer makes no embedding,
\* search or generation call and returns that answer with fromCache = true.
C2_SecondCallServedFromCache ==
  call.hadPrior =>
    /\ call.embedCalls = 0 /\ call.searchCalls = 0 /\ call.modelCalls = 0
    /\ (call.pc = "done" =>
          /\ call.outcome = "returned"
          /\ call.fromCache = "true"
          /\ call.answer = call.priorAnswer)

\* C10: safeGenerateContent with retries = 3 calls the model at most 3 times,
\* has returned once the third call is over, and what it returns is a string:
\* a generated text or the fixed apology; it neither throws nor returns
\* undefined.
C10_SafeGenerateReturnsString ==
  /\ call.modelCalls <= DefaultRetries
  /\ (call.modelCalls = DefaultRetries => call.pc = "done")
  /\ (call.pc = "done" /\ call.modelCalls > 0 =>
        /\ call.outcome = "returned"
        /\ call.genRet \in Texts \cup {ApologyAnswer}
        /\ call.answer = call.genRet)

C10_Witness ==
  /\ call.pc = "done" /\ call.modelCalls = DefaultRetries
  /\ call.backoffMs = BackoffDelay(0) + BackoffDelay(1)
  /\ call.genRet = ApologyAnswer


\* C11: once an attempt of safeGenerateContent has failed with an error that
\* is not a 503, that attempt is the last model call and the function has
\* returned the fixed apology.
C11_NoAttemptAfterOtherError ==
  \A k \in 1..Len(call.statuses) :
    call.statuses[k] = StatusOtherError
      => /\ k = Len(call.statuses)
         /\ call.pc = "done"
         /\ call.genRet = ApologyAnswer

\* C12: a query-processor call whose vector search failed has returned a
\* well-formed answer with hasRelevantContext = false, without a generation
\* call and without throwing to its caller.
C12_SearchFailureStillAnswers ==
  call.searched = "threw"
    => /\ call.pc = "done"
       /\ call.outcome = "returned"
       /\ call.answer # NoValue
       /\ call.hasRelevantContext = "false"
       /\ call.modelCalls = 0

\* C13: a query-processor call whose embedding call failed has returned a
\* failure answer to its caller, not thrown, and made no search and no
\* generation call.
C13_EmbeddingFailureAnsweredGracefully ==
  call.embedded = "threw"
    => /\ call.pc = "done"
       /\ call.outcome = "returned"
       /\ call.answer = WentWrongAnswer
       /\ call.searchCalls = 0
       /\ call.modelCalls = 0

\* C14: a completed query whose cache store was unreachable has gone through
\* embedding and search as after a cache miss, and its answer is not the
\* failure answer.
C14_CacheFailureIsACacheMiss ==
  (call.pc = "done" /\ ~call.redisUp)
    => /\ call.outcome = "returned"
       /\ call.answer # WentWrongAnswer
       /\ call.embedCalls = 1
       /\ call.searchCalls = 1

\* C38: in every result processRAGQuery returns, sources has one entry per
\* retrieved hit, the k-th entry holding title and url of the k-th hit, and
\* hasRelevantContext is false exactly when sources is empty.
C38_SourcesMirrorHits ==
  (call.proc = "processRAGQuery" /\ call.pc = "done" /\ call.outcome = "returned")
    => /\ Len(call.sources) = Len(call.hits)
       /\ \A k \in 1..Len(call.hits) :
            call.sources[k] = [title |-> call.hits[k], url |-> call.hits[k]]
       /\ call.hasRelevantContext \in {"true", "false"}
       /\ (call.hasRelevantContext = "false") <=> (Len(call.sources) = 0)

\* A result built from two hits after a generation.
C38_Witness ==
  /\ call.proc = "processRAGQuery" /\ call.pc = "done"
  /\ call.outcome = "returned"
  /\ Len(call.hits) = 2 /\ Len(call.sources) = 2
  /\ call.sources[1] # call.sources[2]
  /\ call.hasRelevantContext = "true"
  /\ call.modelCalls >= 1

C4_AtMostOneSocketPerRoom ==
  \A sid \in SessionIds :
    Cardinality({ x \in RoomMembers(rooms, sid) : sockState[x] = "connected" }) <= 1

\* Two connected sockets have both joined the session; one of them was evicted.
C4_Witness ==
  \E sid \in SessionIds, x, y \in Sockets :
    /\ x # y /\ sockState[x] = "connected" /\ sockState[y] = "connected"
    /\ <<x, sid>> \in evicted
    /\ RoomMembers(rooms, sid) = {y}

\* C5, as stated: a bot-response for a session is never delivered to a socket
\* whose binding to that session has been replaced by another socket's join.
C5_EvictedSocketReceivesNothing ==
  emitted.event = "bot-response" => emitted.staleRecipients = {}

\* C5, amended: a socket whose binding to a session was replaced is not in
\* that session's room, and a bot-response for the session delivered to it is
\* the response to a send-message it issued itself.
C5_EvictedSocketOnlyOwnResponses ==
  /\ \A x \in Sockets, sid \in SessionIds :
       <<x, sid>> \in evicted => x \notin RoomMembers(rooms, sid)
  /\ emitted.event = "bot-response" =>
       \A x \in emitted.staleRecipients : x = emitted.from

C5_Witness ==
  /\ emitted.event = "bot-response"
  /\ emitted.staleRecipients = {emitted.from}
  /\ \E y \in Sockets : y # emitted.from /\ emitted.roomAtEmit = {y}

\* C6: the event a send-message handler produces is addressed to exactly one
\* connection, the one that sent the message, and is delivered to no other,
\* whatever the membership of the session's room.
C6_ResponseOnlyToRequester ==
  emitted.event # "none" =>
    /\ emitted.targets = {emitted.from}
    /\ emitted.delivered \subseteq {emitted.from}

\* The room of the session holds another socket than the requester when the
\* event is emitted.
C6_Witness ==
  /\ emitted.event # "none"
  /\ emitted.delivered = {emitted.from}
  /\ \E y \in emitted.roomAtEmit : y # emitted.from

\* C36: every entry of connectedSessions maps its session id to a socket
\* that is connected and is a member of the session's room.
C36_RegistryAgreesWithRooms ==
  \A k \in 1..Len(connectedSessions) :
    /\ sockState[connectedSessions[k].socketId] = "connected"
    /\ connectedSessions[k].sessionId \in rooms[connectedSessions[k].socketId]

\* C37: no entry of connectedSessions maps a session id to a socket whose
\* disconnect handler has run.
C37_NoEntryOfDisconnectedSocket ==
  \A k \in 1..Len(connectedSessions) :
    sockState[connectedSessions[k].socketId] # "disconnected"

\* C16 (checked under SpecServer): when a send-message for a stored session
\* is answered with a bot-response, the stored history of the session ends
\* with the user message and the bot message of the turn.
C16_AnsweredTurnIsInHistory ==
  (emitted.event = "bot-response" /\ emitted.sessionStored)
    => LET messages == store[StoreKeyOf(emitted.sid)].messages
           n == Len(messages)
       IN /\ n >= 2
          /\ messages[n - 1].type = "user"
          /\ messages[n].type = "bot"

(***************************************************************************)
(* Properties of the session store and POST /api/chat/message (checked     *)
(* under SpecSession).                                                     *)
(***************************************************************************)
UserEntry(text) == [type |-> "user", content |-> text]

\* C7: when the POST /api/chat/message requests for a created session were
\* processed one at a time and none is in flight, the stored history holds
\* two messages per request: the text submitted, as a user message, then a
\* bot message.
C7_HistoryHoldsTwoMessagesPerRequest ==
  \A sid \in Uuids :
    ( /\ store[sid].exists
      /\ hist[sid].serial
      /\ ~(\E r \in Slots : InFlight(r) /\ reqs[r].sid = sid) )
    => LET n == Len(hist[sid].turns)
           messages == store[sid].messages
       IN /\ Len(messages) = 2 * n
          /\ \A k \in 1..n :
               /\ messages[2 * k - 1] = UserEntry(hist[sid].turns[k])
               /\ messages[2 * k].type = "bot"

\* C15: the session holds messages only of turns whose query steps (cache
\* check, embed, search, generate) are over: a turn is written to the session
\* after its query was processed, never before.
C15_SessionWrittenAfterQuerySteps ==
  \A sid \in Uuids :
    store[sid].exists =>
      Len(store[sid].messages) <= 2 * hist[sid].processed

\* C8: when a POST /api/chat/message request finds the session key absent,
\* updateSessionActivity returns false without throwing, the key is still
\* absent, and the request is answered with status 200.
C8_AbsentSessionStillAnswered ==
  (httpOut.route = "message" /\ httpOut.keyAbsent)
    => /\ ~httpOut.usaThrew
       /\ httpOut.usaReturn = "false"
       /\ ~store[httpOut.sid].exists
       /\ httpOut.status = 200

\* C9: the setEx of an updateSessionActivity call stores the history the call
\* read with its own message appended, whatever the key holds by then: what
\* another call wrote between the read and the write is overwritten.
C9_WriteStoresOwnSnapshot ==
  [][ \A r \in Slots :
        (reqs[r].pc = "usa_set" /\ reqs'[r].pc = "free" /\ httpOut'.usaReturn = "true")
          => store'[reqs[r].sid].messages =
               Append(reqs[r].read.messages, UserEntry(reqs[r].message)) ]_vars

\* Two calls on one session have returned true, and the stored history holds
\* the message of only one of them.
C9_Witness ==
  \E sid \in Uuids :
    /\ store[sid].exists
    /\ hist[sid].appends = 2
    /\ Len(hist[sid].turns) = 2
    /\ store[sid].messages = <<UserEntry(hist[sid].turns[1])>>
         \/ store[sid].messages = <<UserEntry(hist[sid].turns[2])>>

\* C34: when a POST /api/chat/message request has been answered 500, the
\* stored history of its session holds no message of that request (the
\* request's text is the last of the session's turns).
C34_FailedTurnLeavesNoMessage ==
  (/\ httpOut.route = "message" /\ httpOut.status = 500
   /\ httpOut.sid \in Uuids /\ store[httpOut.sid].exists)
    => LET turns == hist[httpOut.sid].turns
       IN \A i \in 1..Len(store[httpOut.sid].messages) :
            store[httpOut.sid].messages[i].content # turns[Len(turns)]

(***************************************************************************)
(* Properties of the session store (checked under SpecStore).              *)
(***************************************************************************)

\* C21: every successful mutation of a session (create, append of a turn,
\* clear) re-applies the full TTL: right after the setEx of a create, of an
\* updateSessionActivity that returned true, or of a clear, the session is
\* stored and expires one full SessionTTL after the present time, whatever
\* its age.
C21_MutationReappliesFullTTL ==
  ( /\ httpOut.sid \in Keys
    /\ \/ httpOut.route \in {"create", "clear"} /\ httpOut.status = 200
       \/ httpOut.usaReturn = "true" )
  => /\ store[httpOut.sid].exists
     /\ store[httpOut.sid].expiresAt = now + SessionTTL

\* A turn has just been appended to a session created earlier: its expiry
\* lies a full TTL after the append, beyond that of its creation.
C21_Witness ==
  /\ httpOut.usaReturn = "true"
  /\ store[httpOut.sid].createdAt < now
  /\ store[httpOut.sid].expiresAt > store[httpOut.sid].createdAt + SessionTTL

\* C22: a completed clear leaves the session stored under the same key with
\* an empty message list, messageCount 0, and the id and createdAt of the
\* session it read; a history request that follows it directly answers 200
\* with an empty list.
C22_ClearEmptiesAndKeepsSession ==
  [][ /\ \A r \in Slots :
           ( /\ reqs[r].pc = "clr_set" /\ reqs'[r].pc = "free"
             /\ httpOut'.status = 200 )
           => /\ store'[reqs[r].sid].exists
              /\ store'[reqs[r].sid].messages = <<>>
              /\ store'[reqs[r].sid].messageCount = 0
              /\ store'[reqs[r].sid].id = reqs[r].sid
              /\ store'[reqs[r].sid].createdAt = reqs[r].read.createdAt
      /\ ( /\ httpOut.route = "clear" /\ httpOut.status = 200
           /\ httpOut'.route = "history" /\ httpOut'.sid = httpOut.sid )
         => /\ httpOut'.status = 200
            /\ httpOut'.history = <<>>
            /\ httpOut'.messageCount = 0 ]_vars

\* A history request answers 200 with an empty list for a session to which
\* a turn had been appended.
C22_Witness ==
  /\ httpOut.route = "history" /\ httpOut.status = 200
  /\ httpOut.history = <<>>
  /\ httpOut.sid \in Uuids
  /\ hist[httpOut.sid].appends >= 1

\* C23: a DELETE or a GET history whose get finds no session under the id
\* (unknown or expired) answers 404 with success false and leaves the store
\* as it was; and a key comes to exist only by a create or by the write of a
\* handler that had read the session under it.
C23_AbsentSessionIs404 ==
  [][ \A sid \in Keys :
        /\ ( /\ httpOut'.route \in {"clear", "history"} /\ httpOut'.sid = sid
             /\ reqs' = reqs
             /\ ~store[sid].exists )
           => /\ httpOut'.status = 404
              /\ ~httpOut'.success
              /\ store' = store
        /\ (~store[sid].exists /\ store'[sid].exists)
           => \/ httpOut'.route = "create"
              \/ \E r \in Slots : /\ reqs[r].pc \in {"usa_set", "clr_set"}
                                   /\ reqs[r].sid = sid
                                   /\ reqs[r].read.exists ]_vars

\* A DELETE on the id of a session that has expired was answered 404.
C23_Witness ==
  /\ httpOut.route = "clear" /\ httpOut.status = 404
  /\ httpOut.sid \in 1..nextUuid
  /\ ~store[httpOut.sid].exists

\* C26: a step of an operation (time does not pass in it) changes the stored
\* state of no session but the one the operation names.
C26_OtherSessionsUntouched ==
  [][ \A b \in Keys :
        (now' = now /\ store'[b] # store[b]) => httpOut'.sid = b ]_vars

\* A turn has just been appended to one session while another session is
\* stored and a handler for it is between its get and its setEx.
C26_Witness ==
  /\ httpOut.usaReturn = "true"
  /\ \E b \in Keys, r \in Slots :
       /\ b # httpOut.sid
       /\ store[b].exists
       /\ reqs[r].sid = b
       /\ reqs[r].pc \in {"usa_set", "clr_set"}

\* C35: the step that answers a history request with success leaves every
\* stored session and its expiry as they were, and the response carries the
\* stored messages in their stored order with the stored messageCount and
\* lastActivity.
C35_HistoryIsReadOnly ==
  [][ (httpOut'.route = "history" /\ httpOut'.status = 200)
        => /\ store' = store
           /\ now' = now
           /\ httpOut'.history = store[httpOut'.sid].messages
           /\ httpOut'.messageCount = store[httpOut'.sid].messageCount
           /\ httpOut'.lastActivity = store[httpOut'.sid].lastActivity ]_vars

\* A history response with two messages in the order of their appends, for a
\* session whose remaining TTL is shorter than a full one.
C35_Witness ==
  /\ httpOut.route = "history" /\ httpOut.status = 200
  /\ Len(httpOut.history) = 2
  /\ RequestOf(httpOut.history[1].content) < RequestOf(httpOut.history[2].content)
  /\ httpOut.messageCount = 2
  /\ store[httpOut.sid].expiresAt - now < SessionTTL

\* C32: a session id that was handed out and whose key is no longer in the
\* store (it has expired) stays out of the store: no step of an append or a
\* clear, whenever it began, makes the session exist again (a create makes a
\* session with a new id).
C32_ExpiredSessionStaysAbsent ==
  [][ \A id \in 1..nextUuid : ~store[id].exists => ~store'[id].exists ]_vars

(***************************************************************************)
(* Properties of one session under creation, appends and clears (checked   *)
(* under SpecTurns).                                                       *)
(***************************************************************************)

\* C31: every session in the store has messageCount equal to the number of
\* entries of its messages list, whatever creations, appends and clears have
\* run and however their reads and writes were interleaved.
C31_MessageCountIsLength ==
  \A id \in Keys :
    store[id].exists => store[id].messageCount = Len(store[id].messages)

\* A session that was cleared while an append was in flight and holds that
\* append's message.
C31_Witness ==
  \E id \in Uuids :
    /\ store[id].exists
    /\ hist[id].clearedUpTo > 0
    /\ Len(store[id].messages) >= 1
    /\ store[id].messageCount = Len(store[id].messages)

\* C33 as stated: once a clear of a session has been answered with success,
\* every message of the session's stored history belongs to an append that
\* started after the clear.
C33_OnlyAppendsStartedAfterClear ==
  \A id \in Uuids :
    (store[id].exists /\ hist[id].clearedUpTo > 0)
      => \A i \in 1..Len(store[id].messages) :
           RequestOf(store[id].messages[i].content) > hist[id].clearedUpTo

\* C33: once a clear of a session has been answered with success, every
\* message of the session's stored history belongs to an append that started
\* after the clear, or was carried by an append in flight when the clear was
\* answered: that append's own message or a message it had read before the
\* clear, which its write puts back.
C33_ClearedHistoryIsLaterOrCarried ==
  \A id \in Uuids :
    (store[id].exists /\ hist[id].clearedUpTo > 0)
      => \A i \in 1..Len(store[id].messages) :
           \/ RequestOf(store[id].messages[i].content) > hist[id].clearedUpTo
           \/ store[id].messages[i].content \in hist[id].carried

\* An append has read the session with one message, the clear has been
\* answered, and the append's write has put that message back.
C33_Witness ==
  \E id \in Uuids :
    /\ store[id].exists
    /\ hist[id].clearedUpTo > 0
    /\ Len(store[id].messages) = 2
    /\ \A i \in 1..2 :
         RequestOf(store[id].messages[i].content) < hist[id].clearedUpTo
    /\ \A r \in Slots : reqs[r].pc = "free"

(***************************************************************************)
(* Properties of the validation of the chat routes (checked under          *)
(* SpecChat).                                                              *)
(***************************************************************************)

\* C24: a POST /api/chat/message or /api/chat/stream whose body lacks message
\* or sessionId is answered 400, and the step that answers it changes
\* nothing else: not the session store, not the requests in flight, and no
\* state of the embedding, search, generation or cache components.
C24_InvalidBodyIs400WithoutEffect ==
  [][ (httpOut'.route \in {"message", "stream"} /\ httpOut'.incomplete)
      => /\ httpOut'.status = 400
         /\ ~httpOut'.success
         /\ UNCHANGED <<now, store, nextUuid, reqs, nReqs, hist>>
         /\ UNCHANGED notSess ]_vars

\* A stream request with an incomplete body was answered 400 while a session
\* was stored and another request was between its get and its setEx.
C24_Witness ==
  /\ httpOut.route = "stream" /\ httpOut.status = 400
  /\ httpOut.incomplete
  /\ \E sid \in Uuids : store[sid].exists
  /\ \E r \in Slots : reqs[r].pc = "usa_set"

(***************************************************************************)
(* Properties of the ingestion (checked under SpecIngest).                 *)
(***************************************************************************)
EntriesOf(c) ==
  { k \in 1..Len(ing.out) :
      ing.out[k].article \in (c.from + 1)..(c.from + c.size) }

\* C25: when an embed call returned a number of vectors different from the
\* number of texts of its batch, every article of the batch is recorded, with
\* no embedding and with an error; and no article at all is recorded with
\* the vector of another article's text.
C25_MismatchedBatchFailsWhole ==
  /\ \A k \in 1..Len(ing.calls) :
       LET c == ing.calls[k] IN
       (c.returned >= 0 /\ c.returned # c.size)
       => /\ Cardinality(EntriesOf(c)) = c.size
          /\ \A e \in EntriesOf(c) :
               /\ ing.out[e].embedding = InvalidVector
               /\ ing.out[e].embeddingError # NoError
  /\ \A e \in 1..Len(ing.out) :
       ing.out[e].embedding # InvalidVector
       => ing.out[e].embedding = ing.out[e].article

\* A run is over in which an embed call returned fewer vectors than texts,
\* but at least one, and another batch was embedded.
C25_Witness ==
  /\ ing.pc = "done"
  /\ \E k \in 1..Len(ing.calls) :
       ing.calls[k].returned >= 1 /\ ing.calls[k].returned < ing.calls[k].size
  /\ \E e \in 1..Len(ing.out) : ing.out[e].embedding # InvalidVector

\* C39: what createEmbeddings has pushed holds the articles in input order,
\* one record each; when it returns there is exactly one record per input
\* article; and a record with an embedding holds the vector the embed call
\* of its batch returned at the article's position in the batch, that call
\* having returned as many vectors as the batch has articles.
C39_OneRecordPerArticleInOrder ==
  /\ \A k \in 1..Len(ing.out) : ing.out[k].article = k
  /\ ing.pc = "done" => Len(ing.out) = ing.n
  /\ \A k \in 1..Len(ing.out) :
       ing.out[k].embedding # InvalidVector
       => \E b \in 1..Len(ing.calls) :
            LET c == ing.calls[b] IN
            /\ k \in (c.from + 1)..(c.from + c.size)
            /\ c.returned = c.size
            /\ ing.out[k].embedding = c.vectors[k - c.from]

\* A run over two batches has returned: the embed call of one batch failed
\* or returned a wrong number of vectors, that of the other returned one
\* vector and one entry without values.
C39_Witness ==
  /\ ing.pc = "done" /\ ing.n > BatchSize
  /\ \E b \in 1..Len(ing.calls) : ing.calls[b].returned # ing.calls[b].size
  /\ \E b \in 1..Len(ing.calls) :
       /\ ing.calls[b].returned = ing.calls[b].size
       /\ \E e, f \in EntriesOf(ing.calls[b]) :
            /\ ing.out[e].embedding # InvalidVector
            /\ ing.out[f].embeddingError = InvalidEmbeddingError

(***************************************************************************)
(* Properties of initializeCollection (checked under SpecQdrant).          *)
(***************************************************************************)

\* C27: initializeCollection is idempotent: while the collection exists no
\* call of it changes the collection; a collection comes to exist only with
\* size 768 and cosine distance; a call that ends with an error changes
\* nothing; and no step of any call, of one caller or of two at once, removes
\* a point that is stored.
C27_InitializeCollectionIsIdempotent ==
  [][ /\ qd.exists => (qd'.exists /\ qd.points \subseteq qd'.points
                        /\ qd'.size = qd.size /\ qd'.distance = qd.distance)
      /\ qd'.exists => (qd'.size = VectorSize /\ qd'.distance = "Cosine")
      /\ (\E c \in Callers : callers[c].result # "threw" /\ callers'[c].result = "threw")
         => qd' = qd ]_vars

(***************************************************************************)
(* Properties of the error boundary of the transports (checked under       *)
(* SpecTransport).                                                         *)
(***************************************************************************)

\* C28: no event emitted to a socket and no body of a response of the chat
\* routes carries the text of an exception: an 'error' event carries the
\* fixed text of the send-message handler, and a 500 of POST /message or
\* POST /stream the fixed text of its route.
C28_NoExceptionTextReachesClient ==
  /\ emitted.message \notin ExceptionMessages
  /\ httpOut.error \notin ExceptionMessages
  /\ emitted.event = "error" => emitted.message = FailedToProcessText
  /\ (httpOut.route = "message" /\ httpOut.status = 500)
       => httpOut.error = "Failed to process message"
  /\ (httpOut.route = "stream" /\ httpOut.status = 500)
       => httpOut.error = "Failed to process streaming message"

\* The failure of a send-message handler was reported to its socket.
C28_Witness ==
  /\ emitted.event = "error"
  /\ emitted.delivered # {}

(***************************************************************************)
(* Properties of POST /api/chat/stream (checked under SpecStream).         *)
(***************************************************************************)

\* fullResponse += chunkText over the fragments (chat.js:70-76).
RECURSIVE Concat(_)
Concat(fragments) ==
  IF Len(fragments) = 0 THEN "" ELSE Head(fragments) \o Concat(Tail(fragments))

\* The stored history of session sid ends with a user message followed by one
\* bot message that holds text.
EndsWithTurn(sid, text) ==
  LET messages == store[sid].messages
      n == Len(messages)
  IN /\ n >= 2
     /\ messages[n - 1].type = "user"
     /\ messages[n].type = "bot"
     /\ messages[n].content = text

\* A POST /stream request on a stored session is over.
StreamDone == httpOut.route = "stream" /\ httpOut.usaReturn = "true"

\* C17: a streaming request whose producer ends without failing and whose
\* client stays has written the fragments to the response in the order
\* produced, and the session ends with one bot message that is their
\* concatenation.
C17_StreamAppendsConcatenation ==
  (StreamDone /\ ~httpOut.plan.producerFails /\ httpOut.plan.clientLeavesAfter = 0)
    => /\ httpOut.status = 200
       /\ httpOut.written = httpOut.plan.fragments
       /\ EndsWithTurn(httpOut.sid, Concat(httpOut.written))

\* C18: a streaming request whose producer fails after some fragments has
\* forwarded those fragments, and the session ends with a bot message holding
\* the text accumulated from them.
C18_TruncatedStreamIsFlushed ==
  (StreamDone /\ httpOut.plan.producerFails /\ Len(httpOut.plan.fragments) >= 1)
    => /\ httpOut.written = httpOut.plan.fragments
       /\ EndsWithTurn(httpOut.sid, Concat(httpOut.plan.fragments))

\* C19: a streaming request whose client disconnects before the last fragment
\* has pulled every fragment from the producer, and the session ends with a
\* bot message holding the complete text.
C19_DisconnectedStreamIsCompleted ==
  (StreamDone /\ ~httpOut.plan.producerFails /\ httpOut.plan.clientLeavesAfter >= 1)
    => /\ httpOut.pulled = Len(httpOut.plan.fragments)
       /\ EndsWithTurn(httpOut.sid, Concat(httpOut.plan.fragments))

C30_CacheSharedAcrossSessions ==
  [][ /\ (cacheOp'.kind # "none" /\ cacheOp'.redisOk)
         => KeyOf[cacheOp'.query] =
              [prefix |-> "query:",
               base64 |-> Base64(Utf8(NormalFormOf[cacheOp'.query]))]
      /\ ( /\ cacheOp.kind = "write" /\ cacheOp.redisOk
           /\ cacheOp'.kind = "read" /\ cacheOp'.redisOk
           /\ cacheOp'.session # cacheOp.session
           /\ NormalFormOf[cacheOp'.query] = NormalFormOf[cacheOp.query] )
         => cacheOp'.returned = CacheHit(cacheOp.result) ]_vars

\* A read for session sB, under a query written differently, has returned as
\* a hit what the step before had cached for session sA.
C30_Witness ==
  /\ cacheOp.kind = "read" /\ cacheOp.redisOk
  /\ cacheOp.session = "sB" /\ cacheOp.afterWrite = "sA"
  /\ cacheOp.returned.fromCache = "true"
  /\ ToLowerCase(cacheOp.query) # cacheOp.query

\* C3: queries that are equal once trimmed and folded to lower case have the
\* same cache key, so that a read under any of them returns the result last
\* written, and not yet expired, under any of them.
C3_CacheKeyIgnoresCaseAndOuterWhitespace ==
  /\ \A q \in QueryStrings :
       ReadBack(cache, q) =
         IF written[NormalFormOf[q]].exists
           THEN CacheHit(written[NormalFormOf[q]].result)
           ELSE Null
  /\ (cacheOp.kind # "none" /\ cacheOp.redisOk) =>
       \A q2 \in QueryStrings :
         NormalFormOf[q2] = NormalFormOf[cacheOp.query]
           => KeyOf[q2] = KeyOf[cacheOp.query]
  /\ (cacheOp.kind = "read" /\ cacheOp.redisOk) =>
       cacheOp.returned = ReadBack(cache, cacheOp.query)
  /\ (cacheOp.kind = "write" /\ cacheOp.redisOk) =>
       ReadBack(cache, cacheOp.query) = CacheHit(cacheOp.result)

\* A result has been written under a query with an upper-case letter and
\* outer whitespace, and a read under its lower-case trimmed form returns it.
C3_Witness ==
  /\ cacheOp.kind = "write" /\ cacheOp.redisOk
  /\ Trim(cacheOp.query) # cacheOp.query
  /\ ToLowerCase(cacheOp.query) # cacheOp.query
  /\ ReadBack(cache, NormalFormOf[cacheOp.query]) = CacheHit(cacheOp.result)

====
